---- MODULE Spec2Model ----
(***************************************************************************)
(* A model of the mirror bot's relay pipeline: the Telethon listener with  *)
(* its per-chat processors and album buffer (src/src/listener.py), the     *)
(* deduplication store (src/src/database.py), the outbound queue and the   *)
(* sender worker (src/src/main.py, src/src/sender.py).                     *)
(*                                                                         *)
(* Python's None is modelled as 0 for integers and "" for strings: the     *)
(* code tests these values by truthiness (`if message.grouped_id:`,        *)
(* `if route.source_topic_id:`, `if target_message_id:`), and the ids the  *)
(* platforms hand out are positive.                                        *)
(***************************************************************************)
EXTENDS Integers, Sequences, FiniteSets, TLC

\* ------------------------------------------------------------------ bounds
\* Messages the source platform posts in one run of the model.
MaxMsgs == 2
\* Messages posted in the specification of the undisturbed pipeline.
MaxLiveMsgs == 3
\* Disturbances in one run: a crash of the process (followed by a restart on
\* the same database file), or a store call, a media download, a fetch or a
\* Bot API call that raises an error other than the rate limit.
MaxFaults == 1
\* Polling fetches issued by _poll_sources.
MaxPolls == 1
\* Messages posted in the specification of the rate-limited send.
MaxFloodMsgs == 2
\* Messages posted in the chat whose messages reply to one another.
MaxReplyMsgs == 2
\* Messages posted in the chat that holds an undownloadable album.
MaxPoisonMsgs == 3
\* Messages posted in the specification of the processing units.
MaxUnitMsgs == 3
\* Messages posted, and seconds that pass, in the specification of the
\* inactivity window.
MaxWindowMsgs == 3
MaxSeconds == 5
\* Messages posted in the specification of the rejected messages.
MaxDropMsgs == 3
\* Characters of a message text handed to the normalizer.
MaxTextLen == 4
\* Characters of the body of a message handed to the normalizer as a whole.
MaxBodyLen == 2
\* Rows of the table in the specification of the store's interface.
MaxStoreRows == 3
\* Rows of the table in a database file found at start-up.
MaxSchemaRows == 2

\* ----------------------------------------------------------- configuration
\* Config.ROUTES as loaded from routes.yml: two routes share source chat 100,
\* the second restricted to topic 55.
Route(name, source_id, target_id, source_topic_id) ==
    [name |-> name, source_id |-> source_id, target_id |-> target_id,
     source_topic_id |-> source_topic_id]

ROUTES ==
    << Route("r1", 100, 200, 0),
       Route("r2", 100, 201, 55) >>

\* album_route before any album: None.
NoRoute == Route("", 0, 0, 0)

RouteSet == {ROUTES[i] : i \in DOMAIN ROUTES}

\* Listener.__init__: source_routes[source_id] lists the routes in config order.
source_routes(chat_id) ==
    SelectSeq(ROUTES, LAMBDA r : r.source_id = chat_id)

SourceIds == {r.source_id : r \in RouteSet}

\* The chats the user account receives events from: the routed source chat and
\* one chat no route reads.
Chats == {100, 101}

\* ------------------------------------------------------------------- store
\* The processed_messages table: a sequence of rows in insertion order (the
\* position is the autoincrement id).
ProcessedMessage(route_name, source_chat_id, source_message_id, grouped_id) ==
    [route_name |-> route_name, source_chat_id |-> source_chat_id,
     source_message_id |-> source_message_id, grouped_id |-> grouped_id,
     target_message_id |-> 0]

\* The columns of idx_unique_message.
RowKey(row) == <<row.route_name, row.source_chat_id, row.source_message_id>>

\* SELECT ... WHERE route_name = ... AND source_chat_id = ... AND source_message_id = ...
SelectRows(tbl, route_name, source_chat_id, source_message_id) ==
    {i \in DOMAIN tbl :
        RowKey(tbl[i]) = <<route_name, source_chat_id, source_message_id>>}

is_processed_any_route(tbl, route, message_id) ==
    \E i \in DOMAIN tbl :
        /\ tbl[i].source_chat_id = route.source_id
        /\ tbl[i].source_message_id = message_id

\* Deduper.is_processed: scalar_one_or_none() is not None.
is_processed(tbl, route, message_id) ==
    SelectRows(tbl, route.name, route.source_id, message_id) # {}

add_processed_no_index(tbl, route, message_id, grouped_id) ==
    [ok |-> TRUE,
     table |-> Append(tbl, ProcessedMessage(route.name, route.source_id,
                                            message_id, grouped_id))]

\* Deduper.add_processed: INSERT and commit; the unique index makes the commit
\* raise IntegrityError (ok = FALSE) and the rollback leaves the table as it was.
add_processed(tbl, route, message_id, grouped_id) ==
    IF SelectRows(tbl, route.name, route.source_id, message_id) # {}
    THEN [ok |-> FALSE, table |-> tbl]
    ELSE [ok |-> TRUE,
          table |-> Append(tbl, ProcessedMessage(route.name, route.source_id,
                                                 message_id, grouped_id))]

\* Deduper.get_target_message_id: the row's target_message_id, None without a row.
get_target_message_id(tbl, route_name, source_chat_id, source_message_id) ==
    LET hit == SelectRows(tbl, route_name, source_chat_id, source_message_id)
    IN  IF hit = {} THEN 0 ELSE tbl[CHOOSE i \in hit : TRUE].target_message_id

\* update_target_message_id that inserts the record when it is missing.
update_target_message_id_upsert(tbl, route_name, source_chat_id, source_message_id, target_message_id) ==
    IF SelectRows(tbl, route_name, source_chat_id, source_message_id) = {}
    THEN Append(tbl, [route_name |-> route_name,
                      source_chat_id |-> source_chat_id,
                      source_message_id |-> source_message_id,
                      grouped_id |-> 0,
                      target_message_id |-> target_message_id])
    ELSE [i \in DOMAIN tbl |->
            IF RowKey(tbl[i]) = <<route_name, source_chat_id, source_message_id>>
            THEN [tbl[i] EXCEPT !.target_message_id = target_message_id]
            ELSE tbl[i]]

\* Deduper.update_target_message_id: sets the column on the selected row and
\* commits; without a row it does nothing.
update_target_message_id(tbl, route_name, source_chat_id, source_message_id, target_message_id) ==
    [i \in DOMAIN tbl |->
        IF RowKey(tbl[i]) = <<route_name, source_chat_id, source_message_id>>
        THEN [tbl[i] EXCEPT !.target_message_id = target_message_id]
        ELSE tbl[i]]

\* ---------------------------------------------------------------- messages
\* message.reply_to (a MessageReplyHeader), present = FALSE for None.
NoReply ==
    [present |-> FALSE, reply_to_top_id |-> 0, forum_topic |-> FALSE,
     reply_to_msg_id |-> 0]

ReplyHeader(reply_to_top_id, forum_topic, reply_to_msg_id) ==
    [present |-> TRUE, reply_to_top_id |-> reply_to_top_id,
     forum_topic |-> forum_topic, reply_to_msg_id |-> reply_to_msg_id]

\* The media attributes determine_media_type inspects.
NoMedia ==
    [sticker |-> FALSE, document |-> FALSE, mime_type |-> "", photo |-> FALSE,
     video |-> FALSE, animated |-> FALSE, voice |-> FALSE, audio |-> FALSE]

Photo == [NoMedia EXCEPT !.photo = TRUE]

\* A .webp image sent as a file: a document that carries no sticker attribute.
WebpDocument == [NoMedia EXCEPT !.document = TRUE, !.mime_type = "image/webp"]

\* A Telethon Message. age is (now - message.date) in seconds when the filter
\* looks at it; message is the text as a sequence of characters; adm is not a
\* field of the program: it numbers the admissions (0 before the message has
\* passed a route's filter and dedup check) so that properties can tell two
\* admissions of one message apart.
Message(id, chat_id, grouped_id, age, reply_to, text, media) ==
    [id |-> id, chat_id |-> chat_id, grouped_id |-> grouped_id, age |-> age,
     reply_to_top_id |-> 0, reply_to |-> reply_to, message |-> text,
     media |-> media, adm |-> 0]

NoMessage == Message(0, 0, 0, 0, NoReply, <<>>, NoMedia)

\* determine_media_type that looks at the photo before the MIME type.
determine_media_type_photo_first(media) ==
    IF media.sticker THEN "sticker"
    ELSE IF media.photo THEN "photo"
    ELSE IF media.document
            /\ media.mime_type \in {"image/webp", "application/x-tgsticker", "video/webm"}
    THEN "sticker"
    ELSE IF media.video THEN (IF media.animated THEN "animation" ELSE "video")
    ELSE IF media.voice THEN "voice"
    ELSE IF media.audio THEN "audio"
    ELSE IF media.document THEN "document"
    ELSE ""

\* Normalizer.determine_media_type.
determine_media_type(media) ==
    IF media.sticker THEN "sticker"
    ELSE IF media.document
            /\ media.mime_type \in {"image/webp", "application/x-tgsticker", "video/webm"}
    THEN "sticker"
    ELSE IF media.photo THEN "photo"
    ELSE IF media.video THEN (IF media.animated THEN "animation" ELSE "video")
    ELSE IF media.voice THEN "voice"
    ELSE IF media.audio THEN "audio"
    ELSE IF media.document THEN "document"
    ELSE ""

\* normalize that takes the topic from the thread root only.
normalize_thread_root_only(message) ==
    [source_chat_id |-> message.chat_id,
     source_topic_id |->
        IF ~message.reply_to.present THEN 0
        ELSE message.reply_to.reply_to_top_id,
     source_message_id |-> message.id,
     grouped_id |-> message.grouped_id,
     reply_to_msg_id |-> 0,
     media_type |-> determine_media_type(message.media),
     media_path |-> 0,
     adm |-> message.adm]

\* Normalizer.normalize, the fields the relay pipeline reads. The constructor
\* call passes no reply_to_msg_id, so the field keeps its default None;
\* media_path is None until the caller downloads the media. The text always
\* ends with the footer, so it is never empty.
normalize(message) ==
    [source_chat_id |-> message.chat_id,
     source_topic_id |->
        IF ~message.reply_to.present THEN 0
        ELSE IF message.reply_to.reply_to_top_id # 0
        THEN message.reply_to.reply_to_top_id
        ELSE IF message.reply_to.forum_topic
        THEN message.reply_to.reply_to_msg_id
        ELSE 0,
     source_message_id |-> message.id,
     grouped_id |-> message.grouped_id,
     reply_to_msg_id |-> 0,
     media_type |-> determine_media_type(message.media),
     media_path |-> 0,
     adm |-> message.adm]

\* ----------------------------------------------------------------- filters
\* str.lower() on the alphabet the model's texts use.
Lower(ch) ==
    CASE ch = "A" -> "a"
      [] ch = "D" -> "d"
      [] ch = "H" -> "h"
      [] ch = "I" -> "i"
      [] OTHER -> ch

LowerText(text) == [i \in DOMAIN text |-> Lower(text[i])]

\* word in text, for sequences of characters.
Contains(text, word) ==
    \E i \in 0..(Len(text) - Len(word)) :
        \A j \in 1..Len(word) : text[i + j] = word[j]

\* Config.BLACKLIST_WORDS: lower-case terms. src/src/config.py defines neither
\* this attribute nor POLLING_INTERVAL, which the Listener reads; the model
\* takes both as set by the deployment, with polling switched on.
BLACKLIST_WORDS == { <<"a", "d">> }

\* _extract_topic_id that takes the replied-to id of any reply for the topic.
extract_topic_id_any_reply(message) ==
    IF message.reply_to_top_id # 0 THEN message.reply_to_top_id
    ELSE IF message.reply_to.present
    THEN IF message.reply_to.reply_to_top_id # 0
         THEN message.reply_to.reply_to_top_id
         ELSE message.reply_to.reply_to_msg_id
    ELSE 0

\* Listener._extract_topic_id.
extract_topic_id(message) ==
    IF message.reply_to_top_id # 0 THEN message.reply_to_top_id
    ELSE IF message.reply_to.present
    THEN IF message.reply_to.reply_to_top_id # 0
         THEN message.reply_to.reply_to_top_id
         ELSE IF message.reply_to.forum_topic
         THEN message.reply_to.reply_to_msg_id
         ELSE 0
    ELSE 0

\* _should_process whose time filter rejects from 300 s on.
should_process_from_threshold(message, route, allow_old) ==
    /\ allow_old \/ ~(message.age >= 300)
    /\ route.source_topic_id # 0 =>
          extract_topic_id(message) = route.source_topic_id
    /\ message.message # <<>> =>
          \A word \in BLACKLIST_WORDS :
              ~Contains(LowerText(message.message), word)

\* Listener._should_process: time filter, topic filter, content filter.
should_process(message, route, allow_old) ==
    /\ allow_old \/ ~(message.age > 300)
    /\ route.source_topic_id # 0 =>
          extract_topic_id(message) = route.source_topic_id
    /\ message.message # <<>> =>
          \A word \in BLACKLIST_WORDS :
              ~Contains(LowerText(message.message), word)

\* ------------------------------------------------------------ album flush
\* list.sort(key=lambda m: m.id): ascending and stable.
InsertById(m, sorted) ==
    LET k == Cardinality({j \in DOMAIN sorted : sorted[j].id <= m.id})
    IN  SubSeq(sorted, 1, k) \o <<m>> \o SubSeq(sorted, k + 1, Len(sorted))

RECURSIVE SortById(_)
SortById(messages) ==
    IF messages = <<>> THEN <<>>
    ELSE InsertById(messages[Len(messages)],
                    SortById(SubSeq(messages, 1, Len(messages) - 1)))

HasMedia(message) == determine_media_type(message.media) # ""

\* How many of the first i messages have media to download.
MediaCount(messages, i) ==
    Cardinality({j \in 1..i : HasMedia(messages[j])})

\* client.download_media(msg, file="src/tmp/") writes a new file each time;
\* the n-th download of the run of the model gets path n.
\* unified_group of _flush_album for the sorted messages, `done` downloads
\* having happened before.
unified_group(messages, done) ==
    [i \in DOMAIN messages |->
        [normalize(messages[i]) EXCEPT
            !.media_path = IF HasMedia(messages[i])
                           THEN done + MediaCount(messages, i) ELSE 0]]

\* ------------------------------------------------------------------- state
VARIABLES
    table,         \* the processed_messages table (on disk: survives a restart)
    tmp_files,     \* the files under src/tmp/ (on disk)
    downloads,     \* how many files download_media has written so far
    history,       \* the source platform: the messages posted, by id
    events,        \* ids whose NewMessage event has not been handed over yet
    target_chats,  \* the target platform: per chat, the messages the bot created
    chat_tasks,    \* Listener.chat_queues / chat_tasks: the chats that have one
    chat_queues,   \* Listener.chat_queues[chat]: (message, allow_old) pairs
    last_seen,     \* Listener.last_seen, 0 for a missing key
    proc,          \* per chat, the locals and the position of _chat_processor
    poll,          \* the position of _poll_sources
    queue,         \* the outbound asyncio.Queue
    worker,        \* the locals and the position of sender_worker
    outbox,        \* history: every item ever put on the outbound queue
    admitted,      \* history: every (route, message) that passed filter and dedup
    received,      \* history: the items sender_worker took, by serial
    completed,     \* history: the items sender_worker finished without an error
    faults, polls, \* counters that bound the model
    marked,        \* store interface: the keys add_processed has inserted
    call           \* store interface: the last add_processed call and its outcome

vars ==
    <<table, tmp_files, downloads, history, events, target_chats, chat_tasks,
      chat_queues, last_seen, proc, poll, queue, worker, outbox, admitted,
      received, completed, faults, polls, marked, call>>

diskVars == <<table, tmp_files, downloads>>
platformVars == <<history, events, target_chats>>
listenerVars == <<chat_tasks, chat_queues, last_seen, proc, poll>>
logVars == <<outbox, admitted, received, completed>>
boundVars == <<faults, polls>>
storeApiVars == <<marked, call>>

TargetIds == {r.target_id : r \in RouteSet}

NoMark == [route |-> NoRoute, message_id |-> 0, grouped_id |-> 0]

\* _chat_processor before its first message: no album.
InitProc ==
    [pc |-> "get", album_id |-> 0, album_messages |-> <<>>,
     album_route |-> NoRoute, message |-> NoMessage, allow_old |-> FALSE,
     ri |-> 0, mark |-> NoMark]

NoItem ==
    [route |-> NoRoute, payload |-> <<>>, is_list |-> FALSE, seq |-> 0,
     why |-> ""]

\* floods counts the rate-limit signals of the send in progress, slept the
\* seconds _handle_flood_wait has slept for it.
InitWorker ==
    [pc |-> "get", item |-> NoItem, reply_to_target_id |-> 0,
     target_message_ids |-> <<>>, sent |-> FALSE, floods |-> 0, slept |-> 0]

\* The sources in the order of source_routes.keys().
SourceList == <<100>>

\* _poll_sources when the process starts: _init_last_seen comes first.
InitPoll == [pc |-> "init", src |-> 1, min_id |-> 0, found |-> <<>>]

NoCall == [route |-> NoRoute, message_id |-> 0, was_marked |-> FALSE, ok |-> TRUE]

\* main() has started on an empty database and with empty source chats:
\* nothing received, nothing sent, _poll_sources about to call _init_last_seen.
Init ==
    /\ table = <<>>
    /\ tmp_files = {}
    /\ downloads = 0
    /\ history = <<>>
    /\ events = {}
    /\ target_chats = [t \in TargetIds |-> <<>>]
    /\ chat_tasks = {}
    /\ chat_queues = [c \in Chats |-> <<>>]
    /\ last_seen = [c \in Chats |-> 0]
    /\ proc = [c \in Chats |-> InitProc]
    /\ poll = InitPoll
    /\ queue = <<>>
    /\ worker = InitWorker
    /\ outbox = <<>>
    /\ admitted = <<>>
    /\ received = <<>>
    /\ completed = <<>>
    /\ faults = 0
    /\ polls = 0
    /\ marked = {}
    /\ call = NoCall

\* ------------------------------------------------------ the source platform
PostChats == {100}
PostAges == {5}
PostTexts == { <<"h", "i">> }
\* No reply header, or a reply inside forum topic 55.
PostReplies == {NoReply, ReplyHeader(55, TRUE, 55)}
PostGroups == {0, 7}
\* With disturbances every message carries a photo, so that every enqueued
\* message has a downloaded file.
PostMedia(grouped_id) == {Photo}

LiveMedia(grouped_id) ==
    IF grouped_id = 0 THEN {NoMedia} ELSE {Photo, WebpDocument}

\* Somebody posts a message in a chat; the platform numbers it and owes the
\* user account a NewMessage event.
Post ==
    /\ Len(history) < MaxMsgs
    /\ \E c \in PostChats, g \in PostGroups, a \in PostAges,
          rep \in PostReplies, txt \in PostTexts :
         \E med \in PostMedia(g) :
            /\ history' = Append(history,
                             Message(Len(history) + 1, c, g, a, rep, txt, med))
            /\ events' = events \cup {Len(history) + 1}
    /\ UNCHANGED <<diskVars, target_chats, listenerVars, queue, worker,
                   logVars, boundVars, storeApiVars>>

\* Album ids are arbitrary numbers: the second one appears only after the first.
LiveGroups ==
    {0, 7} \cup (IF \E i \in DOMAIN history : history[i].grouped_id = 7
                 THEN {8} ELSE {})

\* Post for the undisturbed pipeline: text messages and up to two albums of
\* photos and .webp files.
PostLive ==
    /\ Len(history) < MaxLiveMsgs
    /\ \E c \in PostChats, g \in LiveGroups, a \in PostAges,
          rep \in PostReplies, txt \in PostTexts :
         \E med \in LiveMedia(g) :
            /\ history' = Append(history,
                             Message(Len(history) + 1, c, g, a, rep, txt, med))
            /\ events' = events \cup {Len(history) + 1}
    /\ UNCHANGED <<diskVars, target_chats, listenerVars, queue, worker,
                   logVars, boundVars, storeApiVars>>

\* ---------------------------------------------------------------- listener
\* Listener._update_last_seen.
update_last_seen(seen, chat_id, message_id) ==
    IF message_id > seen[chat_id]
    THEN [seen EXCEPT ![chat_id] = message_id]
    ELSE seen

\* _ensure_chat_queue that creates a task whether or not the chat has one.
ensure_chat_queue_always(units, tasks, chat_id) ==
    [units EXCEPT ![chat_id] = @ + 1]

\* Listener._ensure_chat_queue, and the same test in _handle_new_message: a
\* queue and a processor task are created for a chat that has none. units
\* counts the tasks created per chat, tasks holds the chats with an entry in
\* self.chat_queues.
ensure_chat_queue(units, tasks, chat_id) ==
    IF chat_id \notin tasks
    THEN [units EXCEPT ![chat_id] = @ + 1]
    ELSE units

\* Listener._handle_new_message, for the event of message id. No await
\* suspends before the put: the queue is unbounded.
handle_new_message(id) ==
    /\ id \in events
    /\ LET message == history[id]
           chat_id == message.chat_id
       IN  /\ events' = events \ {id}
           /\ last_seen' = update_last_seen(last_seen, chat_id, id)
           /\ chat_tasks' = chat_tasks \cup {chat_id}
           /\ chat_queues' =
                [chat_queues EXCEPT ![chat_id] =
                    Append(@, [message |-> message, allow_old |-> FALSE])]
    /\ UNCHANGED <<diskVars, history, target_chats, proc, poll, queue, worker,
                   logVars, boundVars, storeApiVars>>

\* The newest message id of a chat, 0 for an empty chat.
LatestId(chat_id) ==
    LET ids == {i \in DOMAIN history : history[i].chat_id = chat_id}
    IN  IF ids = {} THEN 0 ELSE CHOOSE i \in ids : \A j \in ids : j <= i

\* iter_messages(source_id, min_id=min_id, reverse=True): oldest first.
RECURSIVE NewerThan(_, _, _)
NewerThan(chat_id, min_id, upto) ==
    IF upto = 0 THEN <<>>
    ELSE NewerThan(chat_id, min_id, upto - 1) \o
         (IF history[upto].chat_id = chat_id /\ upto > min_id
          THEN <<history[upto]>> ELSE <<>>)

\* After the last source: asyncio.sleep, then the for loop starts again.
NextSource(src) == IF src < Len(SourceList) THEN src + 1 ELSE 1

\* _init_last_seen: get_messages(source_id, limit=1) is sent; the server
\* answers with the newest message it holds at that moment.
init_last_seen_request ==
    /\ poll.pc = "init"
    /\ poll' = [poll EXCEPT !.pc = "init_wait",
                            !.min_id = LatestId(SourceList[poll.src])]
    /\ UNCHANGED <<diskVars, platformVars, chat_tasks, chat_queues, last_seen,
                   proc, queue, worker, logVars, boundVars, storeApiVars>>

InitDone(p) ==
    IF p.src < Len(SourceList)
    THEN [p EXCEPT !.pc = "init", !.src = p.src + 1, !.min_id = 0]
    ELSE [p EXCEPT !.pc = "loop", !.src = 1, !.min_id = 0]

\* _init_last_seen: the answer arrives and is stored.
init_last_seen_reply ==
    /\ poll.pc = "init_wait"
    /\ last_seen' = IF poll.min_id # 0
                    THEN [last_seen EXCEPT ![SourceList[poll.src]] = poll.min_id]
                    ELSE last_seen
    /\ poll' = InitDone(poll)
    /\ UNCHANGED <<diskVars, platformVars, chat_tasks, chat_queues, proc,
                   queue, worker, logVars, boundVars, storeApiVars>>

\* _init_last_seen: get_messages raises; the warning is logged and the
\* watermark of that source stays unset.
init_last_seen_fails ==
    /\ poll.pc = "init_wait"
    /\ faults < MaxFaults
    /\ faults' = faults + 1
    /\ poll' = InitDone(poll)
    /\ UNCHANGED <<diskVars, platformVars, chat_tasks, chat_queues, last_seen,
                   proc, queue, worker, logVars, polls, storeApiVars>>

\* _poll_sources: min_id is read and iter_messages sends its request; the
\* server answers with the messages newer than min_id it holds. A fetch that
\* finds nothing changes nothing and is left out.
poll_request ==
    /\ poll.pc = "loop"
    /\ polls < MaxPolls
    /\ NewerThan(SourceList[poll.src], last_seen[SourceList[poll.src]],
                 Len(history)) # <<>>
    /\ polls' = polls + 1
    /\ LET source_id == SourceList[poll.src]
           min_id == last_seen[source_id]
       IN  poll' = [poll EXCEPT !.pc = "fetch", !.min_id = min_id,
                        !.found = NewerThan(source_id, min_id, Len(history))]
    /\ UNCHANGED <<diskVars, platformVars, chat_tasks, chat_queues, last_seen,
                   proc, queue, worker, logVars, faults, storeApiVars>>

RECURSIVE MaxIdOf(_)
MaxIdOf(messages) ==
    IF messages = <<>> THEN 0
    ELSE LET rest == MaxIdOf(Tail(messages))
         IN  IF Head(messages).id > rest THEN Head(messages).id ELSE rest

\* _poll_sources: the answer arrives; every message of it is put on the chat's
\* queue with allow_old = True, the processor being created if missing
\* (_ensure_chat_queue). The chunk is handled without a suspension.
poll_deliver ==
    /\ poll.pc = "fetch"
    /\ LET source_id == SourceList[poll.src]
       IN  /\ last_seen' =
                 IF poll.found = <<>> THEN last_seen
                 ELSE update_last_seen(last_seen, source_id, MaxIdOf(poll.found))
           /\ chat_tasks' =
                 IF poll.found = <<>> THEN chat_tasks
                 ELSE chat_tasks \cup {source_id}
           /\ chat_queues' =
                 [chat_queues EXCEPT ![source_id] =
                     @ \o [i \in DOMAIN poll.found |->
                             [message |-> poll.found[i], allow_old |-> TRUE]]]
    /\ poll' = [poll EXCEPT !.pc = "loop", !.src = NextSource(poll.src),
                            !.min_id = 0, !.found = <<>>]
    /\ UNCHANGED <<diskVars, platformVars, proc, queue, worker, logVars,
                   boundVars, storeApiVars>>

\* _poll_sources: iter_messages raises; the error is logged and, after the
\* sleep, the for loop starts again with the first source.
poll_fails ==
    /\ poll.pc = "fetch"
    /\ faults < MaxFaults
    /\ faults' = faults + 1
    /\ poll' = [poll EXCEPT !.pc = "loop", !.src = 1, !.min_id = 0,
                            !.found = <<>>]
    /\ UNCHANGED <<diskVars, platformVars, chat_tasks, chat_queues, last_seen,
                   proc, queue, worker, logVars, polls, storeApiVars>>

\* ---------------------------------------------------------- chat processor
\* The paths of n downloads after `done` earlier ones.
NewFiles(done, n) == (done + 1)..(done + n)

\* _flush_album: the items it puts on the outbound queue (none when it
\* returns early). seq and why are not data of the program: seq numbers the
\* items in the order they were put, why names the call site ("timeout",
\* "album" for a part of another album, "single" for a standalone message).
flush_album(route, messages, done, seq, why) ==
    IF messages = <<>> \/ route = NoRoute THEN <<>>
    ELSE << [route |-> route,
             payload |-> unified_group(SortById(messages), done),
             is_list |-> TRUE, seq |-> seq, why |-> why] >>

\* queue.put on the unbounded asyncio.Queue: first in, first out.
put_lifo(q, items) == items \o q

put(q, items) == q \o items

flush_before_single_missing(p, done, seq) == <<>>

\* _chat_processor, standalone branch: `if album_id is not None: flush`.
flush_before_single(p, done, seq) ==
    IF p.album_id # 0
    THEN flush_album(p.album_route, p.album_messages, done, seq, "single")
    ELSE <<>>

\* The album branch without the flush of the other pending album.
flush_before_album_missing(p, message, done, seq) == <<>>

\* _chat_processor, album branch: an album is pending and the message belongs
\* to another one.
flush_before_album(p, message, done, seq) ==
    IF p.album_id # message.grouped_id /\ p.album_id # 0
    THEN flush_album(p.album_route, p.album_messages, done, seq, "album")
    ELSE <<>>

\* The files a successful flush of the items has written.
FlushedFiles(items, messages) ==
    IF items = <<>> THEN 0 ELSE MediaCount(messages, Len(messages))

\* `except Exception` of _chat_processor: the error is logged and the loop
\* goes on with the next queue entry; the album locals stay as they are.
Raised(p) ==
    [p EXCEPT !.pc = "get", !.message = NoMessage, !.allow_old = FALSE,
              !.ri = 0, !.mark = NoMark]

\* The for loop over possible_routes goes on, or the iteration ends.
NextRoute(p, chat_id) ==
    IF p.ri < Len(source_routes(chat_id))
    THEN [p EXCEPT !.pc = "routes", !.ri = p.ri + 1, !.mark = NoMark]
    ELSE Raised(p)

CurrentRoute(chat_id) == source_routes(chat_id)[proc[chat_id].ri]

\* The route in turn passes its filters and the message is not yet processed.
Admits(chat_id) ==
    /\ chat_id \in chat_tasks
    /\ proc[chat_id].pc = "routes"
    /\ should_process(proc[chat_id].message, CurrentRoute(chat_id),
                      proc[chat_id].allow_old)
    /\ ~is_processed(table, CurrentRoute(chat_id), proc[chat_id].message.id)

Admission(chat_id) ==
    [route |-> CurrentRoute(chat_id).name, chat |-> chat_id,
     id |-> proc[chat_id].message.id]

\* _chat_processor: the next entry is taken from the chat's queue. A chat
\* without routes drops it.
ProcGet(c) ==
    /\ c \in chat_tasks
    /\ proc[c].pc = "get"
    /\ chat_queues[c] # <<>>
    /\ chat_queues' = [chat_queues EXCEPT ![c] = Tail(@)]
    /\ proc' = IF source_routes(c) = <<>> THEN proc
               ELSE [proc EXCEPT ![c] =
                        [@ EXCEPT !.pc = "routes",
                                  !.message = Head(chat_queues[c]).message,
                                  !.allow_old = Head(chat_queues[c]).allow_old,
                                  !.ri = 1]]
    /\ UNCHANGED <<diskVars, platformVars, chat_tasks, last_seen, poll, queue,
                   worker, logVars, boundVars, storeApiVars>>

\* _chat_processor: an album is pending and wait_for times out after 2 s with
\* no entry on the queue: the album is flushed.
ProcTimeout(c) ==
    /\ c \in chat_tasks
    /\ proc[c].pc = "get"
    /\ proc[c].album_id # 0
    /\ chat_queues[c] = <<>>
    /\ LET p == proc[c]
           items == flush_album(p.album_route, p.album_messages, downloads,
                                Len(outbox) + 1, "timeout")
           n == FlushedFiles(items, p.album_messages)
       IN  /\ queue' = put(queue, items)
           /\ outbox' = outbox \o items
           /\ downloads' = downloads + n
           /\ tmp_files' = tmp_files \cup NewFiles(downloads, n)
           /\ proc' = [proc EXCEPT ![c] =
                         [p EXCEPT !.album_id = 0, !.album_messages = <<>>,
                                   !.album_route = NoRoute]]
    /\ UNCHANGED <<table, platformVars, chat_tasks, chat_queues, last_seen,
                   poll, worker, admitted, received, completed, boundVars,
                   storeApiVars>>

\* _flush_album raises: the download of the k-th sorted message fails after
\* the earlier ones were written. The list was sorted in place; the album
\* locals are not reset.
FlushRaises(c) ==
    /\ faults < MaxFaults
    /\ faults' = faults + 1
    /\ LET p == proc[c]
           sorted == SortById(p.album_messages)
       IN  \E k \in DOMAIN sorted :
              /\ HasMedia(sorted[k])
              /\ downloads' = downloads + MediaCount(sorted, k - 1)
              /\ tmp_files' = tmp_files \cup
                                NewFiles(downloads, MediaCount(sorted, k - 1))
              /\ proc' = [proc EXCEPT ![c] =
                            Raised([p EXCEPT !.album_messages = sorted])]

\* The timeout flush fails.
ProcTimeoutFails(c) ==
    /\ c \in chat_tasks
    /\ proc[c].pc = "get"
    /\ proc[c].album_id # 0
    /\ chat_queues[c] = <<>>
    /\ FlushRaises(c)
    /\ UNCHANGED <<table, platformVars, chat_tasks, chat_queues, last_seen,
                   poll, queue, worker, logVars, polls, storeApiVars>>

\* ProcSkip that records the message for the route that rejected it
\* (add_processed called ahead of the filter and the dedup check).
ProcSkip_marks(c) ==
    /\ c \in chat_tasks
    /\ proc[c].pc = "routes"
    /\ ~Admits(c)
    /\ table' = add_processed(table, CurrentRoute(c), proc[c].message.id,
                              proc[c].message.grouped_id).table
    /\ proc' = [proc EXCEPT ![c] = NextRoute(@, c)]
    /\ UNCHANGED <<tmp_files, downloads, platformVars, chat_tasks, chat_queues,
                   last_seen, poll, queue, worker, logVars, boundVars,
                   storeApiVars>>

\* _chat_processor: the route in turn rejects the message, or the message is
\* already processed for it.
ProcSkip(c) ==
    /\ c \in chat_tasks
    /\ proc[c].pc = "routes"
    /\ ~Admits(c)
    /\ proc' = [proc EXCEPT ![c] = NextRoute(@, c)]
    /\ UNCHANGED <<diskVars, platformVars, chat_tasks, chat_queues, last_seen,
                   poll, queue, worker, logVars, boundVars, storeApiVars>>

\* deduper.is_processed raises (the store is unavailable).
ProcStoreError(c) ==
    /\ c \in chat_tasks
    /\ proc[c].pc = "routes"
    /\ should_process(proc[c].message, CurrentRoute(c), proc[c].allow_old)
    /\ faults < MaxFaults
    /\ faults' = faults + 1
    /\ proc' = [proc EXCEPT ![c] = Raised(@)]
    /\ UNCHANGED <<diskVars, platformVars, chat_tasks, chat_queues, last_seen,
                   poll, queue, worker, logVars, polls, storeApiVars>>

\* _chat_processor, `if message.grouped_id:` the part continues the pending
\* album or starts a new one (after the flush of another pending album); the
\* add_processed call that follows is ProcMark.
ProcAlbumPart(c) ==
    /\ Admits(c)
    /\ proc[c].message.grouped_id # 0
    /\ LET p == proc[c]
           route == CurrentRoute(c)
           message == [p.message EXCEPT !.adm = Len(admitted) + 1]
           same == p.album_id = message.grouped_id
           items == flush_before_album(p, message, downloads, Len(outbox) + 1)
           n == FlushedFiles(items, p.album_messages)
       IN  /\ queue' = put(queue, items)
           /\ outbox' = outbox \o items
           /\ downloads' = downloads + n
           /\ tmp_files' = tmp_files \cup NewFiles(downloads, n)
           /\ proc' = [proc EXCEPT ![c] =
                 [p EXCEPT
                    !.album_id = message.grouped_id,
                    !.album_messages = IF same THEN Append(@, message)
                                       ELSE <<message>>,
                    !.album_route = IF same THEN @ ELSE route,
                    !.pc = "mark",
                    !.mark = [route |-> route, message_id |-> message.id,
                              grouped_id |-> message.grouped_id]]]
    /\ admitted' = Append(admitted, Admission(c))
    /\ UNCHANGED <<table, platformVars, chat_tasks, chat_queues, last_seen,
                   poll, worker, received, completed, boundVars, storeApiVars>>

\* The flush of the pending album fails when a standalone message or a part of
\* another album has been admitted: the message is lost with the exception.
ProcFlushFails(c) ==
    /\ Admits(c)
    /\ proc[c].album_id # 0
    /\ proc[c].album_id # proc[c].message.grouped_id
    /\ FlushRaises(c)
    /\ admitted' = Append(admitted, Admission(c))
    /\ UNCHANGED <<table, platformVars, chat_tasks, chat_queues, last_seen,
                   poll, queue, worker, outbox, received, completed, polls,
                   storeApiVars>>

\* _chat_processor, standalone branch, with _process_single_message up to its
\* queue.put: a pending album is flushed and forgotten, the message is
\* normalized, its media downloaded, and (route, unified_msg) is put on the
\* outbound queue. The add_processed call that follows is ProcMark.
ProcSingle(c) ==
    /\ Admits(c)
    /\ proc[c].message.grouped_id = 0
    /\ LET p == proc[c]
           route == CurrentRoute(c)
           message == [p.message EXCEPT !.adm = Len(admitted) + 1]
           flushed == flush_before_single(p, downloads, Len(outbox) + 1)
           n == FlushedFiles(flushed, p.album_messages)
           k == IF HasMedia(message) THEN 1 ELSE 0
           unified_msg == [normalize(message) EXCEPT
                              !.media_path = IF HasMedia(message)
                                             THEN downloads + n + 1 ELSE 0]
           item == [route |-> route, payload |-> <<unified_msg>>,
                    is_list |-> FALSE, seq |-> Len(outbox) + Len(flushed) + 1,
                    why |-> ""]
       IN  /\ queue' = put(put(queue, flushed), <<item>>)
           /\ outbox' = outbox \o flushed \o <<item>>
           /\ downloads' = downloads + n + k
           /\ tmp_files' = tmp_files \cup NewFiles(downloads, n + k)
           /\ proc' = [proc EXCEPT ![c] =
                 [p EXCEPT
                    !.album_id = 0,
                    !.album_messages = <<>>,
                    !.pc = "mark",
                    !.mark = [route |-> route, message_id |-> message.id,
                              grouped_id |-> 0]]]
    /\ admitted' = Append(admitted, Admission(c))
    /\ UNCHANGED <<table, platformVars, chat_tasks, chat_queues, last_seen,
                   poll, worker, received, completed, boundVars, storeApiVars>>

\* _process_single_message: download_media raises, after a pending album was
\* flushed and forgotten. Nothing is put for the message.
ProcSingleDownloadFails(c) ==
    /\ Admits(c)
    /\ proc[c].message.grouped_id = 0
    /\ HasMedia(proc[c].message)
    /\ faults < MaxFaults
    /\ faults' = faults + 1
    /\ LET p == proc[c]
           flushed == flush_before_single(p, downloads, Len(outbox) + 1)
           n == FlushedFiles(flushed, p.album_messages)
       IN  /\ queue' = put(queue, flushed)
           /\ outbox' = outbox \o flushed
           /\ downloads' = downloads + n
           /\ tmp_files' = tmp_files \cup NewFiles(downloads, n)
           /\ proc' = [proc EXCEPT ![c] =
                 Raised([p EXCEPT !.album_id = 0, !.album_messages = <<>>])]
    /\ admitted' = Append(admitted, Admission(c))
    /\ UNCHANGED <<table, platformVars, chat_tasks, chat_queues, last_seen,
                   poll, worker, received, completed, polls, storeApiVars>>

\* deduper.add_processed for the message just buffered or enqueued; an
\* IntegrityError ends the iteration like any other exception.
ProcMark(c) ==
    /\ c \in chat_tasks
    /\ proc[c].pc = "mark"
    /\ LET mark == proc[c].mark
           res == add_processed(table, mark.route, mark.message_id,
                                mark.grouped_id)
       IN  /\ table' = res.table
           /\ proc' = [proc EXCEPT ![c] =
                         IF res.ok THEN NextRoute(@, c) ELSE Raised(@)]
    /\ UNCHANGED <<tmp_files, downloads, platformVars, chat_tasks, chat_queues,
                   last_seen, poll, queue, worker, logVars, boundVars,
                   storeApiVars>>

\* deduper.add_processed raises because the store is unavailable: no row.
ProcMarkFails(c) ==
    /\ c \in chat_tasks
    /\ proc[c].pc = "mark"
    /\ faults < MaxFaults
    /\ faults' = faults + 1
    /\ proc' = [proc EXCEPT ![c] = Raised(@)]
    /\ UNCHANGED <<diskVars, platformVars, chat_tasks, chat_queues, last_seen,
                   poll, queue, worker, logVars, polls, storeApiVars>>

\* ------------------------------------------------------------ sender worker
\* BotSender.send_album: the positions that enter media_group. A message
\* without a downloaded file is skipped, and so is every media type the
\* if/elif chain does not name.
media_group(messages) ==
    SelectSeq([i \in DOMAIN messages |-> i],
              LAMBDA i : /\ messages[i].media_path # 0
                         /\ messages[i].media_type \in
                              {"photo", "video", "document", "audio"})

\* The positions of the payload the send turns into target messages.
SentPositions(item) ==
    IF item.is_list THEN media_group(item.payload) ELSE <<1>>

\* A worker that takes the next item while it still has one in hand.
WorkerGet_while_busy ==
    /\ queue # <<>>
    /\ LET item == Head(queue)
           first_msg == item.payload[1]
       IN  /\ worker' =
                [InitWorker EXCEPT
                   !.pc = "send",
                   !.item = item,
                   !.reply_to_target_id =
                      IF first_msg.reply_to_msg_id # 0
                      THEN get_target_message_id(table, item.route.name,
                               first_msg.source_chat_id,
                               first_msg.reply_to_msg_id)
                      ELSE 0]
           /\ received' = Append(received, item.seq)
    /\ queue' = Tail(queue)
    /\ UNCHANGED <<diskVars, platformVars, listenerVars, outbox, admitted,
                   completed, boundVars, storeApiVars>>

\* sender_worker: the next item is taken and its reply target looked up.
WorkerGet ==
    /\ worker.pc = "get"
    /\ queue # <<>>
    /\ LET item == Head(queue)
           first_msg == item.payload[1]
       IN  /\ worker' =
                [InitWorker EXCEPT
                   !.pc = "send",
                   !.item = item,
                   !.reply_to_target_id =
                      IF first_msg.reply_to_msg_id # 0
                      THEN get_target_message_id(table, item.route.name,
                               first_msg.source_chat_id,
                               first_msg.reply_to_msg_id)
                      ELSE 0]
           /\ received' = Append(received, item.seq)
    /\ queue' = Tail(queue)
    /\ UNCHANGED <<diskVars, platformVars, listenerVars, outbox, admitted,
                   completed, boundVars, storeApiVars>>

\* A send whose call creates the target messages and is then retried as if it
\* had been answered by a rate-limit signal.
WorkerSend_then_retry ==
    /\ worker.pc = "send"
    /\ LET item == worker.item
           target == item.route.target_id
           positions == SentPositions(item)
       IN  /\ target_chats' =
                [target_chats EXCEPT ![target] =
                   @ \o [j \in DOMAIN positions |->
                           [seq |-> item.seq, pos |-> positions[j],
                            source_message_id |->
                               item.payload[positions[j]].source_message_id,
                            reply_to |-> worker.reply_to_target_id]]]
           /\ worker' = [worker EXCEPT !.floods = @ + 1]
    /\ UNCHANGED <<diskVars, history, events, listenerVars, queue, logVars,
                   boundVars, storeApiVars>>

\* The Bot API call of send_message / send_album succeeds: the target chat
\* gets one new message per sent position and numbers them in order. An album
\* whose media_group is empty returns [] without a call.
WorkerSend ==
    /\ worker.pc = "send"
    /\ LET item == worker.item
           target == item.route.target_id
           positions == SentPositions(item)
           base == Len(target_chats[target])
       IN  /\ target_chats' =
                [target_chats EXCEPT ![target] =
                   @ \o [j \in DOMAIN positions |->
                           [seq |-> item.seq, pos |-> positions[j],
                            source_message_id |->
                               item.payload[positions[j]].source_message_id,
                            reply_to |-> worker.reply_to_target_id]]]
           /\ worker' = [worker EXCEPT
                           !.pc = "record",
                           !.sent = positions # <<>>,
                           !.target_message_ids =
                              [j \in DOMAIN positions |-> base + j]]
    /\ UNCHANGED <<diskVars, history, events, listenerVars, queue, logVars,
                   boundVars, storeApiVars>>

\* sys.getrecursionlimit() of the interpreter, which main() leaves at its
\* default: the retry of send_message / send_album is a call of the method by
\* itself from its except clause, so every rate-limit signal of one send adds
\* a frame that stays until the send returns.
RecursionLimit == 1000

\* e.retry_after of the TelegramRetryAfter the target platform raises.
RetryAfters == {3}

\* The call raises TelegramRetryAfter: _handle_flood_wait sleeps retry_after
\* seconds and the send calls itself again, one frame deeper.
WorkerSendFlood ==
    /\ worker.pc = "send"
    /\ SentPositions(worker.item) # <<>>
    /\ worker.floods + 1 < RecursionLimit
    /\ \E retry_after \in RetryAfters :
          worker' = [worker EXCEPT !.floods = @ + 1, !.slept = @ + retry_after]
    /\ UNCHANGED <<diskVars, platformVars, listenerVars, queue, logVars,
                   boundVars, storeApiVars>>

\* The call raises TelegramRetryAfter in the deepest frame the interpreter
\* allows: after the sleep the call of the send by itself raises
\* RecursionError inside the except clause, which no `except Exception` of the
\* send catches; it reaches `except Exception` of sender_worker, which logs it
\* and turns to the next item: nothing is recorded, no file removed.
WorkerSendOverflow ==
    /\ worker.pc = "send"
    /\ SentPositions(worker.item) # <<>>
    /\ worker.floods + 1 = RecursionLimit
    /\ worker' = InitWorker
    /\ UNCHANGED <<diskVars, platformVars, listenerVars, queue, logVars,
                   boundVars, storeApiVars>>

WorkerSendFails_requeue ==
    /\ worker.pc = "send"
    /\ SentPositions(worker.item) # <<>>
    /\ faults < MaxFaults
    /\ faults' = faults + 1
    /\ queue' = Append(queue, worker.item)
    /\ worker' = [worker EXCEPT !.pc = "record", !.sent = FALSE,
                                !.target_message_ids = <<>>]
    /\ UNCHANGED <<diskVars, platformVars, listenerVars, logVars, polls,
                   storeApiVars>>

\* The call raises another exception: it is logged, and send_message returns
\* None, send_album [].
WorkerSendFails ==
    /\ worker.pc = "send"
    /\ SentPositions(worker.item) # <<>>
    /\ faults < MaxFaults
    /\ faults' = faults + 1
    /\ worker' = [worker EXCEPT !.pc = "record", !.sent = FALSE,
                                !.target_message_ids = <<>>]
    /\ UNCHANGED <<diskVars, platformVars, listenerVars, queue, logVars,
                   polls, storeApiVars>>

\* How many update_target_message_id calls the worker makes for its item.
Updates(w) ==
    IF Len(w.target_message_ids) < Len(w.item.payload)
    THEN Len(w.target_message_ids) ELSE Len(w.item.payload)

\* sender_worker: target_message_ids[i] is recorded for msgs[i], for the first
\* n positions.
RECURSIVE record_target_ids(_, _, _, _, _)
record_target_ids(tbl, route_name, msgs, target_message_ids, n) ==
    IF n = 0 THEN tbl
    ELSE update_target_message_id(
             record_target_ids(tbl, route_name, msgs, target_message_ids, n - 1),
             route_name, msgs[n].source_chat_id, msgs[n].source_message_id,
             target_message_ids[n])

\* The media files of a payload.
MediaPaths(msgs) ==
    {msgs[i].media_path : i \in DOMAIN msgs} \ {0}

\* sender_worker after the send: the returned ids are recorded, the temporary
\* files removed, and the worker turns to the next item.
WorkerRecord ==
    /\ worker.pc = "record"
    /\ table' = record_target_ids(table, worker.item.route.name,
                                  worker.item.payload,
                                  worker.target_message_ids, Updates(worker))
    /\ tmp_files' = tmp_files \ MediaPaths(worker.item.payload)
    /\ completed' = Append(completed,
                       [item |-> worker.item,
                        target_message_ids |-> worker.target_message_ids])
    /\ worker' = InitWorker
    /\ UNCHANGED <<downloads, platformVars, listenerVars, queue, outbox,
                   admitted, received, boundVars, storeApiVars>>

\* update_target_message_id raises at the n-th call: `except Exception` of
\* sender_worker logs it and the loop goes on with the next item.
WorkerRecordFails ==
    /\ worker.pc = "record"
    /\ faults < MaxFaults
    /\ faults' = faults + 1
    /\ \E n \in 1..Updates(worker) :
          table' = record_target_ids(table, worker.item.route.name,
                                     worker.item.payload,
                                     worker.target_message_ids, n - 1)
    /\ worker' = InitWorker
    /\ UNCHANGED <<tmp_files, downloads, platformVars, listenerVars, queue,
                   logVars, polls, storeApiVars>>

\* ------------------------------------------------------------------ restart
\* The process dies and main() runs again on the same database file: queues,
\* tasks, buffers and watermarks are gone, and so are the events the platform
\* sent in between.
Restart ==
    /\ faults < MaxFaults
    /\ faults' = faults + 1
    /\ events' = {}
    /\ chat_tasks' = {}
    /\ chat_queues' = [c \in Chats |-> <<>>]
    /\ last_seen' = [c \in Chats |-> 0]
    /\ proc' = [c \in Chats |-> InitProc]
    /\ poll' = InitPoll
    /\ queue' = <<>>
    /\ worker' = InitWorker
    /\ UNCHANGED <<diskVars, history, target_chats, logVars, polls,
                   storeApiVars>>

\* ------------------------------------------------------------ specification
Next ==
    \/ Post
    \/ \E id \in DOMAIN history : handle_new_message(id)
    \/ init_last_seen_request
    \/ init_last_seen_reply
    \/ init_last_seen_fails
    \/ poll_request
    \/ poll_deliver
    \/ poll_fails
    \/ \E c \in Chats : ProcGet(c)
    \/ \E c \in Chats : ProcTimeout(c)
    \/ \E c \in Chats : ProcTimeoutFails(c)
    \/ \E c \in Chats : ProcSkip(c)
    \/ \E c \in Chats : ProcStoreError(c)
    \/ \E c \in Chats : ProcAlbumPart(c)
    \/ \E c \in Chats : ProcFlushFails(c)
    \/ \E c \in Chats : ProcSingle(c)
    \/ \E c \in Chats : ProcSingleDownloadFails(c)
    \/ \E c \in Chats : ProcMark(c)
    \/ \E c \in Chats : ProcMarkFails(c)
    \/ WorkerGet
    \/ WorkerSend
    \/ WorkerSendFails
    \/ WorkerRecord
    \/ WorkerRecordFails
    \/ Restart

\* The pipeline with its disturbances: polling, crashes, failing calls.
Spec == Init /\ [][Next]_vars

NextLive ==
    \/ PostLive
    \/ \E id \in DOMAIN history : handle_new_message(id)
    \/ \E c \in Chats : ProcGet(c)
    \/ \E c \in Chats : ProcTimeout(c)
    \/ \E c \in Chats : ProcSkip(c)
    \/ \E c \in Chats : ProcAlbumPart(c)
    \/ \E c \in Chats : ProcSingle(c)
    \/ \E c \in Chats : ProcMark(c)
    \/ WorkerGet
    \/ WorkerSend
    \/ WorkerRecord

\* The undisturbed pipeline: live events only, every call succeeds.
SpecLive == Init /\ [][NextLive]_vars

\* ------------------------------------------------------ the store's interface
\* The callers of the Deduper: the configured routes, and r1 as it was before
\* its source was changed in routes.yml (same name, another source chat).
StoreRoutes == RouteSet \cup {Route("r1", 101, 200, 0)}
StoreMessageIds == {1, 2}
StoreGroupedIds == {0, 7}
StoreTargetIds == {999}

StoreKey(route, message_id) == [route |-> route, message_id |-> message_id]

\* One add_processed call, with its outcome noted in `call`.
StoreAdd ==
    \E route \in StoreRoutes, message_id \in StoreMessageIds,
       grouped_id \in StoreGroupedIds :
        LET res == add_processed(table, route, message_id, grouped_id)
        IN  /\ Len(res.table) <= MaxStoreRows
            /\ table' = res.table
            /\ call' = [route |-> route, message_id |-> message_id,
                        was_marked |-> StoreKey(route, message_id) \in marked,
                        ok |-> res.ok]
            /\ marked' = IF res.ok
                         THEN marked \cup {StoreKey(route, message_id)}
                         ELSE marked
            /\ UNCHANGED <<tmp_files, downloads, platformVars, listenerVars,
                           queue, worker, logVars, boundVars>>

\* One update_target_message_id call.
StoreSetTarget ==
    \E route \in StoreRoutes, message_id \in StoreMessageIds,
       target_message_id \in StoreTargetIds :
        /\ table' = update_target_message_id(table, route.name, route.source_id,
                                             message_id, target_message_id)
        /\ UNCHANGED <<tmp_files, downloads, platformVars, listenerVars,
                       queue, worker, logVars, boundVars, storeApiVars>>

NextStore ==
    \/ StoreAdd
    \/ StoreSetTarget

\* Any sequence of calls on the store, from the empty table init_db creates.
SpecStore == Init /\ [][NextStore]_vars

\* ------------------------------------------------------------------ claims
\* C3: once add_processed has succeeded for (route, message id), every later
\* add_processed for the same pair fails with the duplicate-key error, the
\* table holds exactly one row with that key, and is_processed answers true
\* from then on.
C3_MarkOnce ==
    /\ call.was_marked => ~call.ok
    /\ \A k \in marked :
          /\ Cardinality(SelectRows(table, k.route.name, k.route.source_id,
                                    k.message_id)) = 1
          /\ is_processed(table, k.route, k.message_id)

\* A second add_processed for a marked key has been made and refused, after
\* other calls on the store.
C3_Witness ==
    /\ call.was_marked
    /\ ~call.ok
    /\ Len(table) >= 2
    /\ \E i \in DOMAIN table : table[i].target_message_id # 0

\* C4: is_processed(route, message id) is true exactly for the keys that
\* add_processed has inserted; a mark changes the answer for its own key only.
C4_ProcessedIffRecord ==
    \A route \in StoreRoutes, message_id \in StoreMessageIds :
        is_processed(table, route, message_id)
            <=> StoreKey(route, message_id) \in marked

\* (r1, 1) is marked while the same id on the route sharing r1's source chat,
\* the same id under r1's name for another chat, and another id on r1 are not.
C4_Witness ==
    /\ is_processed(table, ROUTES[1], 1)
    /\ ~is_processed(table, ROUTES[2], 1)
    /\ ~is_processed(table, Route("r1", 101, 200, 0), 1)
    /\ ~is_processed(table, ROUTES[1], 2)
    /\ StoreKey(ROUTES[1], 1) \in marked


\* The places (item, position) of the outbound queue's history that carry
\* message m for the route named r.
Placements(r, m) ==
    {<<i, j>> \in (DOMAIN outbox) \X (1..MaxMsgs) :
        /\ outbox[i].route.name = r
        /\ j \in DOMAIN outbox[i].payload
        /\ outbox[i].payload[j].source_message_id = m}

\* C1: over live events, poll replays, store outcomes and restarts, a source
\* message is put on the outbound queue for a route at most once in total,
\* alone or inside an album batch.
C1_AtMostOnce ==
    \A r \in RouteSet, m \in DOMAIN history :
        Cardinality(Placements(r.name, m)) <= 1

\* The items that are on the outbound queue or in the worker's hands.
Pending ==
    {queue[i] : i \in DOMAIN queue}
        \cup (IF worker.pc = "get" THEN {} ELSE {worker.item})

\* C2: whenever a message is on the outbound queue for a route, or already
\* taken by the sender worker, the store holds the record of that message for
\* that route.
C2_MarkedBeforeQueued ==
    \A item \in Pending :
        \A j \in DOMAIN item.payload :
            is_processed(table, item.route, item.payload[j].source_message_id)

\* The ids of a payload, in its order.
PayloadIds(payload) == [j \in DOMAIN payload |-> payload[j].source_message_id]

\* The admissions a list of buffered messages or a payload stands for.
Admissions(messages) == {messages[j].adm : j \in DOMAIN messages}

Ascending(ids) == \A j, k \in DOMAIN ids : j < k => ids[j] <= ids[k]

StrictlyAscending(ids) == \A j, k \in DOMAIN ids : j < k => ids[j] < ids[k]

\* C5: when a standalone message is admitted and enqueued while an album is
\* pending for its chat, that step puts the pending album's batch, sorted by
\* message id, on the outbound queue directly before the standalone item, and
\* leaves the processor without a pending album.
C5_FlushBeforeSingle ==
    [][\A c \in Chats :
          ( /\ Admits(c)
            /\ proc[c].message.grouped_id = 0
            /\ proc[c].album_id # 0
            /\ admitted' # admitted
            /\ faults' = faults )
          => /\ Len(outbox') = Len(outbox) + 2
             /\ LET batch == outbox'[Len(outbox) + 1]
                    single == outbox'[Len(outbox) + 2]
                IN  /\ batch.is_list
                    /\ batch.route = proc[c].album_route
                    /\ Len(batch.payload) = Len(proc[c].album_messages)
                    /\ Admissions(batch.payload)
                          = Admissions(proc[c].album_messages)
                    /\ Ascending(PayloadIds(batch.payload))
                    /\ ~single.is_list
                    /\ single.route = CurrentRoute(c)
                    /\ PayloadIds(single.payload) = <<proc[c].message.id>>
                    /\ queue' = queue \o <<batch, single>>
             /\ proc'[c].album_id = 0
             /\ proc'[c].album_messages = <<>>
      ]_vars

\* An album of two parts that arrived in descending id order was flushed, in
\* ascending order, by a standalone message whose item follows the batch.
C5_Witness ==
    \E i \in DOMAIN outbox :
        /\ i < Len(outbox)
        /\ outbox[i].why = "single"
        /\ Len(outbox[i].payload) = 2
        /\ outbox[i].payload[1].adm > outbox[i].payload[2].adm
        /\ outbox[i].payload[1].source_message_id
              < outbox[i].payload[2].source_message_id
        /\ ~outbox[i + 1].is_list
        /\ \A c \in PostChats : proc[c].album_id = 0

\* C6: every album batch put on the outbound queue lists its parts in
\* strictly ascending source message id, whatever their order of arrival.
C6_BatchStrictlyAscending ==
    \A i \in DOMAIN outbox :
        outbox[i].is_list => StrictlyAscending(PayloadIds(outbox[i].payload))

\* The items of the outbound queue's history that carry admission x.
ItemsOf(x) ==
    {i \in DOMAIN outbox : x \in Admissions(outbox[i].payload)}

\* C7: two admissions of one chat for one route that end up in different
\* items are enqueued in the order of their admission, and the sender worker
\* takes the items in the order they were enqueued.
C7_AdmissionOrder ==
    /\ \A x, y \in DOMAIN admitted :
          ( /\ x < y
            /\ admitted[x].chat = admitted[y].chat
            /\ admitted[x].route = admitted[y].route )
          => \A i \in ItemsOf(x), j \in ItemsOf(y) : i <= j
    /\ StrictlyAscending(received)

\* Two messages admitted for r1 were enqueued as two items and the worker has
\* taken both.
C7_Witness ==
    \E x, y \in DOMAIN admitted :
        /\ x < y
        /\ admitted[x].route = "r1"
        /\ admitted[y].route = "r1"
        /\ \E i \in ItemsOf(x), j \in ItemsOf(y) :
              /\ i < j
              /\ \E a, b \in DOMAIN received :
                    a < b /\ received[a] = i /\ received[b] = j

\* The chat's processor waits for its next message with no album pending.
Idle(c) ==
    /\ proc[c].pc = "get"
    /\ proc[c].album_id = 0

\* C8: every message a route admitted is enqueued under that route, as a
\* standalone item or as a part of a batch, once the processor has nothing
\* pending (no call having failed and the process not having crashed).
C8_EnqueuedUnderEachRoute ==
    \A x \in DOMAIN admitted :
        (faults = 0 /\ Idle(admitted[x].chat))
            => Placements(admitted[x].route, admitted[x].id) # {}

\* C9: once the send of a standalone message has succeeded with target id t
\* and both the worker's update_target_message_id and the listener's
\* add_processed for it have returned, get_target_message_id returns t.
C9_TargetRecorded ==
    \A k \in DOMAIN completed :
        LET item == completed[k].item
            msg == item.payload[1]
        IN  ( /\ faults = 0
              /\ ~item.is_list
              /\ completed[k].target_message_ids # <<>>
              /\ is_processed(table, item.route, msg.source_message_id) )
            => get_target_message_id(table, item.route.name,
                                     msg.source_chat_id, msg.source_message_id)
                  = completed[k].target_message_ids[1]

RouteNamed(name) == CHOOSE r \in RouteSet : r.name = name

\* C10: the target id recorded for a part of an album is the id of the
\* target message that was created from that part.
C10_AlbumTargetOfOwnPart ==
    \A i \in DOMAIN table :
        (table[i].grouped_id # 0 /\ table[i].target_message_id # 0)
            => LET chat == target_chats[RouteNamed(table[i].route_name).target_id]
               IN  chat[table[i].target_message_id].source_message_id
                      = table[i].source_message_id

\* ------------------------------------------------------ the rate-limited send
\* One photo message, standalone or the only part of an album, outside any
\* topic.
PostFlood ==
    /\ Len(history) < MaxFloodMsgs
    /\ \E c \in PostChats, g \in PostGroups, a \in PostAges, txt \in PostTexts :
          /\ history' = Append(history,
                           Message(Len(history) + 1, c, g, a, NoReply, txt,
                                   Photo))
          /\ events' = events \cup {Len(history) + 1}
    /\ UNCHANGED <<diskVars, target_chats, listenerVars, queue, worker,
                   logVars, boundVars, storeApiVars>>

NextFlood ==
    \/ PostFlood
    \/ \E id \in DOMAIN history : handle_new_message(id)
    \/ \E c \in Chats : ProcGet(c)
    \/ \E c \in Chats : ProcTimeout(c)
    \/ \E c \in Chats : ProcSkip(c)
    \/ \E c \in Chats : ProcAlbumPart(c)
    \/ \E c \in Chats : ProcSingle(c)
    \/ \E c \in Chats : ProcMark(c)
    \/ WorkerGet
    \/ WorkerSend
    \/ WorkerSendFlood
    \/ WorkerSendOverflow
    \/ WorkerRecord

\* The pipeline with a target platform that answers sends with rate-limit
\* signals; every other call succeeds.
SpecFlood == Init /\ [][NextFlood]_vars

\* The items the sender worker has taken and is no longer working on.
Finished ==
    {outbox[i] : i \in {j \in DOMAIN outbox :
                          /\ \E k \in DOMAIN received : received[k] = j
                          /\ ~(worker.pc # "get" /\ worker.item.seq = j)}}

\* C11: an item whose send is answered by rate-limit signals is never
\* dropped, however many signals come in a row: every item the sender worker
\* has finished was sent, and the returned target ids were recorded.
C11_RateLimitNeverDrops ==
    \A item \in Finished :
        \E k \in DOMAIN completed :
            /\ completed[k].item = item
            /\ completed[k].target_message_ids # <<>>
            /\ \E t \in DOMAIN target_chats[item.route.target_id] :
                  target_chats[item.route.target_id][t].seq = item.seq

\* The worker holds the result of a send that raised: send_message returned
\* None, send_album [].
SendFailed(w) ==
    /\ w.pc = "record"
    /\ ~w.sent
    /\ SentPositions(w.item) # <<>>

\* The items whose send raised and which the worker has left behind.
Dropped ==
    {completed[k].item : k \in {j \in DOMAIN completed :
        /\ SentPositions(completed[j].item) # <<>>
        /\ completed[j].target_message_ids = <<>>}}

\* C12: an item whose send raised an error other than the rate limit is
\* dropped: the target chat never gets a message from it, it is taken from
\* the outbound queue once and never put back, the worker records no target
\* id for it and turns to the next item.
C12_FailedSendDrops ==
    /\ [](\A item \in Dropped \cup
                      (IF SendFailed(worker) THEN {worker.item} ELSE {}) :
            /\ \A t \in DOMAIN target_chats[item.route.target_id] :
                  target_chats[item.route.target_id][t].seq # item.seq
            /\ \A i \in DOMAIN queue : queue[i].seq # item.seq
            /\ Cardinality({k \in DOMAIN received : received[k] = item.seq}) = 1)
    /\ [][(SendFailed(worker) /\ WorkerRecord)
             => /\ table' = table
                /\ queue' = queue
                /\ worker' = InitWorker]_vars

\* A send raised, the item was dropped, and the worker has sent a later item.
C12_Witness ==
    \E k, n \in DOMAIN completed :
        /\ k < n
        /\ completed[k].item \in Dropped
        /\ completed[n].target_message_ids # <<>>

\* C13: whenever the sender worker is done with an item, after a send that
\* succeeded or was dropped or after an error of the store, none of the
\* temporary media files of the item's payload is left.
C13_FilesRemoved ==
    [][(WorkerRecord \/ WorkerRecordFails)
          => MediaPaths(worker.item.payload) \cap tmp_files' = {}]_vars


\* ------------------------------------------------------------------ replies
\* Text messages and album photos that may reply to an earlier message of
\* the chat.
RepliesTo(id) ==
    {NoReply} \cup {ReplyHeader(0, FALSE, p) : p \in 1..(id - 1)}

PostReply ==
    /\ Len(history) < MaxReplyMsgs
    /\ \E c \in PostChats, g \in PostGroups, a \in PostAges,
          rep \in RepliesTo(Len(history) + 1), txt \in PostTexts :
          /\ history' = Append(history,
                           Message(Len(history) + 1, c, g, a, rep, txt,
                                   IF g = 0 THEN NoMedia ELSE Photo))
          /\ events' = events \cup {Len(history) + 1}
    /\ UNCHANGED <<diskVars, target_chats, listenerVars, queue, worker,
                   logVars, boundVars, storeApiVars>>

NextReply ==
    \/ PostReply
    \/ \E id \in DOMAIN history : handle_new_message(id)
    \/ \E c \in Chats : ProcGet(c)
    \/ \E c \in Chats : ProcTimeout(c)
    \/ \E c \in Chats : ProcSkip(c)
    \/ \E c \in Chats : ProcAlbumPart(c)
    \/ \E c \in Chats : ProcSingle(c)
    \/ \E c \in Chats : ProcMark(c)
    \/ WorkerGet
    \/ WorkerSend
    \/ WorkerRecord

\* The undisturbed pipeline on a chat whose messages reply to one another.
SpecReply == Init /\ [][NextReply]_vars

\* The target id that the record of the message which the first message of
\* an item replies to holds on the item's route, 0 for no reply, no record or
\* no target id.
ReplyTarget(item) ==
    LET m == history[item.payload[1].source_message_id]
    IN  IF m.reply_to.present
        THEN get_target_message_id(table, item.route.name, m.chat_id,
                                   m.reply_to.reply_to_msg_id)
        ELSE 0

\* C14: when the sender worker takes an item whose (first) message replies to
\* a message p, it resolves the reply link to the target id that p's record
\* holds on the item's route at that moment, and to none if p has no record
\* or no target id; the send that follows carries exactly that link on every
\* message it creates.
C14_ReplyLinked ==
    /\ [][WorkerGet => worker'.reply_to_target_id = ReplyTarget(Head(queue))]_vars
    /\ [][WorkerSend =>
            \A j \in (Len(target_chats[worker.item.route.target_id]) + 1)
                       ..Len(target_chats'[worker.item.route.target_id]) :
               target_chats'[worker.item.route.target_id][j].reply_to
                  = worker.reply_to_target_id]_vars


\* ------------------------------------------------------- the poison message
\* The photos of the albums of this specification cannot be downloaded:
\* client.download_media raises each time it is called for one of them.
CannotDownload(message) == message.grouped_id # 0 /\ HasMedia(message)

\* Text messages, and parts of one album of undownloadable photos.
PostPoison ==
    /\ Len(history) < MaxPoisonMsgs
    /\ \E c \in PostChats, g \in PostGroups, a \in PostAges, txt \in PostTexts :
          /\ history' = Append(history,
                           Message(Len(history) + 1, c, g, a, NoReply, txt,
                                   IF g = 0 THEN NoMedia ELSE Photo))
          /\ events' = events \cup {Len(history) + 1}
    /\ UNCHANGED <<diskVars, target_chats, listenerVars, queue, worker,
                   logVars, boundVars, storeApiVars>>

\* _flush_album raises at the first part that cannot be downloaded, after the
\* parts before it were written; `except Exception` of _chat_processor logs
\* the error and the album locals stay as they are.
PoisonRaises(c) ==
    LET p == proc[c]
        sorted == SortById(p.album_messages)
    IN  \E k \in DOMAIN sorted :
           /\ CannotDownload(sorted[k])
           /\ \A j \in 1..(k - 1) : ~CannotDownload(sorted[j])
           /\ downloads' = downloads + MediaCount(sorted, k - 1)
           /\ tmp_files' = tmp_files \cup
                             NewFiles(downloads, MediaCount(sorted, k - 1))
           /\ proc' = [proc EXCEPT ![c] =
                         Raised([p EXCEPT !.album_messages = sorted])]

\* The timeout flush of the pending album raises.
ProcPoisonTimeout(c) ==
    /\ c \in chat_tasks
    /\ proc[c].pc = "get"
    /\ proc[c].album_id # 0
    /\ chat_queues[c] = <<>>
    /\ PoisonRaises(c)
    /\ UNCHANGED <<table, platformVars, chat_tasks, chat_queues, last_seen,
                   poll, queue, worker, logVars, boundVars, storeApiVars>>

\* A standalone message is admitted while the album is pending: the flush
\* that precedes _process_single_message raises and the iteration ends.
ProcPoisonFlush(c) ==
    /\ Admits(c)
    /\ proc[c].album_id # 0
    /\ proc[c].album_id # proc[c].message.grouped_id
    /\ PoisonRaises(c)
    /\ admitted' = Append(admitted, Admission(c))
    /\ UNCHANGED <<table, platformVars, chat_tasks, chat_queues, last_seen,
                   poll, queue, worker, outbox, received, completed, boundVars,
                   storeApiVars>>

\* A standalone message is admitted while no album is pending.
ProcSingleIdle(c) ==
    /\ proc[c].album_id = 0
    /\ ProcSingle(c)

PoisonListener ==
    \/ \E id \in DOMAIN history : handle_new_message(id)
    \/ \E c \in Chats : ProcGet(c)
    \/ \E c \in Chats : ProcPoisonTimeout(c)
    \/ \E c \in Chats : ProcSkip(c)
    \/ \E c \in Chats : ProcAlbumPart(c)
    \/ \E c \in Chats : ProcPoisonFlush(c)
    \/ \E c \in Chats : ProcSingleIdle(c)
    \/ \E c \in Chats : ProcMark(c)

PoisonWorker ==
    \/ WorkerGet
    \/ WorkerSend
    \/ WorkerRecord

NextPoison ==
    \/ PostPoison
    \/ PoisonListener
    \/ PoisonWorker

\* The event loop runs every task that is ready: the listener's tasks and
\* the sender worker each take their next step when they have one.
SpecPoison ==
    Init /\ [][NextPoison]_vars /\ WF_vars(PoisonListener) /\ WF_vars(PoisonWorker)

\* C15: a message whose own media can be downloaded and that a route has
\* admitted (it passed the route's filters and the dedup check) is eventually
\* put on the outbound queue for that route, whatever failed for the messages
\* before it.
C15_LaterMessagesForwarded ==
    \A r \in RouteSet, m \in 1..MaxPoisonMsgs :
        (\E x \in DOMAIN admitted :
            /\ admitted[x].route = r.name
            /\ admitted[x].id = m
            /\ ~CannotDownload(history[m]))
          ~> (Placements(r.name, m) # {})


\* -------------------------------------------------------------- the filters
\* Ages in seconds around the threshold; a negative age is a message dated
\* after the listener's clock.
FilterAges == {0 - 1, 0, 299, 300, 301, 600}
\* No reply header; a reply inside a thread with root 55 or 99; a message
\* posted in forum topic 55 or 99; a plain reply to message 55.
FilterReplies ==
    {NoReply, ReplyHeader(55, FALSE, 60), ReplyHeader(99, TRUE, 60),
     ReplyHeader(0, TRUE, 55), ReplyHeader(0, TRUE, 99),
     ReplyHeader(0, FALSE, 55)}
FilterTexts == { <<>>, <<"h", "i">>, <<"A", "d">> }

\* One call _should_process(message, route, allow_old=allow_old); allow_old
\* is False for a live event and True for a message _poll_sources fetched.
should_process_call ==
    \E a \in FilterAges, rep \in FilterReplies, txt \in FilterTexts,
       route \in RouteSet, allow_old \in BOOLEAN :
        LET message == Message(1, route.source_id, 0, a, rep, txt, NoMedia)
        IN  call' = [message |-> message, route |-> route,
                     allow_old |-> allow_old,
                     result |-> should_process(message, route, allow_old)]

NextFilter ==
    /\ should_process_call
    /\ UNCHANGED <<table, diskVars, platformVars, listenerVars, queue, worker,
                   logVars, boundVars, marked>>

\* Calls on the listener's filter only.
SpecFilter == Init /\ [][NextFilter]_vars

FilterCalled == "result" \in DOMAIN call

\* The thread a message belongs to: the thread root its reply header names,
\* else the replied-to id when the header is flagged as a forum topic reply,
\* else none (0).
ResolvedTopic(message) ==
    IF ~message.reply_to.present THEN 0
    ELSE IF message.reply_to.reply_to_top_id # 0
    THEN message.reply_to.reply_to_top_id
    ELSE IF message.reply_to.forum_topic
    THEN message.reply_to.reply_to_msg_id
    ELSE 0

\* The route names no topic or the message is in the route's topic.
TopicPasses(message, route) ==
    route.source_topic_id = 0 \/ ResolvedTopic(message) = route.source_topic_id

\* The lower-cased text holds no blacklisted word.
ContentPasses(message) ==
    \A word \in BLACKLIST_WORDS : ~Contains(LowerText(message.message), word)

\* A live message is not older than 300 s, or the message was polled.
AgePasses(message, allow_old) == allow_old \/ message.age <= 300

\* C16: a live message older than 300 s is rejected; a live message of age
\* 300 s or less, and a polled message of any age, is not rejected on account
\* of its age: it is accepted exactly when the topic and content filters
\* accept it.
C16_AgeFilter ==
    FilterCalled =>
        /\ (~call.allow_old /\ call.message.age > 300) => ~call.result
        /\ (call.allow_old \/ call.message.age <= 300) =>
              (call.result <=> /\ TopicPasses(call.message, call.route)
                               /\ ContentPasses(call.message))

\* A polled message older than the threshold was accepted, and so was a live
\* message of exactly 300 s.
C16_Witness ==
    /\ FilterCalled
    /\ call.result
    /\ \/ call.allow_old /\ call.message.age = 600
       \/ ~call.allow_old /\ call.message.age = 300

\* C17: a route with source_topic_id = T rejects every message whose resolved
\* topic is not T, a message without reply metadata included, and does not
\* reject a message whose resolved topic is T on account of its topic: it
\* accepts it exactly when the age and content filters accept it.
C17_TopicFilter ==
    (FilterCalled /\ call.route.source_topic_id # 0) =>
        /\ ResolvedTopic(call.message) # call.route.source_topic_id
              => ~call.result
        /\ ~call.message.reply_to.present => ~call.result
        /\ ResolvedTopic(call.message) = call.route.source_topic_id =>
              (call.result <=> /\ AgePasses(call.message, call.allow_old)
                               /\ ContentPasses(call.message))

\* The route of topic 55 accepted a message posted in forum topic 55 whose
\* header names no thread root.
C17_Witness ==
    /\ FilterCalled
    /\ call.route.source_topic_id = 55
    /\ call.message.reply_to = ReplyHeader(0, TRUE, 55)
    /\ call.result


\* C18: no step of the listener moves the last-seen watermark of a source
\* chat backward, be it the handling of a live event, a polling iteration or
\* the initialisation of the watermarks when polling starts. (A restart of
\* the process begins with empty watermarks.)
C18_LastSeenMonotonic ==
    [][Restart \/ \A c \in Chats : last_seen'[c] >= last_seen[c]]_vars


\* ------------------------------------------------------ the footer of a text
\* A text is a sequence of characters. "U+1F600" is one character outside the
\* Basic Multilingual Plane: str.encode('utf-16-le') writes it as a pair of
\* surrogates, every other character of the alphabet as one unit of two bytes.
TextAlphabet == {"h", "i", "U+1F600"}

RECURSIVE encode_utf16_le(_)
encode_utf16_le(text) ==
    IF text = <<>> THEN <<>>
    ELSE (IF Head(text) = "U+1F600" THEN <<"D83D", "DE00">> ELSE <<Head(text)>>)
            \o encode_utf16_le(Tail(text))

\* len(text) instead of the number of UTF-16 units.
current_len_code_points(text) == Len(text)

\* current_len_utf16 = len(msg.text.encode('utf-16-le')) // 2
current_len_utf16(text) == (2 * Len(encode_utf16_le(text))) \div 2

\* footer_text = "\n\n@mirors_sliv", and the text that replaces an empty one.
footer_text ==
    <<"\n", "\n", "@", "m", "i", "r", "o", "r", "s", "_", "s", "l", "i", "v">>

footer_alone == <<"@", "m", "i", "r", "o", "r", "s", "_", "s", "l", "i", "v">>

\* normalize that keeps the separator in front of the suffix of an empty text.
normalize_text_keeps_separator(text) ==
    [text |-> text \o footer_text,
     entities |-> << [type |-> "mention",
                      offset |-> IF current_len_utf16(text) > 0
                                 THEN current_len_utf16(text) + 1 ELSE 0,
                      length |-> 12] >>]

\* Normalizer.normalize, the text and the entities of a message without
\* entities of its own: the footer is appended and one mention entity is
\* added for it.
normalize_text(text) ==
    IF current_len_utf16(text) > 0
    THEN [text |-> text \o footer_text,
          entities |-> << [type |-> "mention",
                           offset |-> current_len_utf16(text) + 1,
                           length |-> 12] >>]
    ELSE [text |-> footer_alone,
          entities |-> << [type |-> "mention", offset |-> 0, length |-> 12] >>]

RECURSIVE TextsOfLen(_)
TextsOfLen(n) ==
    IF n = 0 THEN { <<>> }
    ELSE {Append(t, ch) : t \in TextsOfLen(n - 1), ch \in TextAlphabet}

MessageTexts == UNION {TextsOfLen(n) : n \in 0..MaxTextLen}

\* One call of normalize on a message with the given text.
normalize_call ==
    \E text \in MessageTexts :
        call' = [input |-> text, msg |-> normalize_text(text)]

NextText ==
    /\ normalize_call
    /\ UNCHANGED <<table, diskVars, platformVars, listenerVars, queue, worker,
                   logVars, boundVars, marked>>

\* Calls on the normalizer's text handling only.
SpecText == Init /\ [][NextText]_vars

Normalized == "msg" \in DOMAIN call

\* The length of a text in UTF-16 code units.
RECURSIVE UTF16Length(_)
UTF16Length(text) ==
    IF text = <<>> THEN 0
    ELSE (IF Head(text) = "U+1F600" THEN 2 ELSE 1) + UTF16Length(Tail(text))

\* The footer entity: the last entity of the normalized message.
FooterEntity == call.msg.entities[Len(call.msg.entities)]

\* C19: for a text of UTF-16 length L > 0 the mention entity normalize appends
\* has offset L + 1 and length 12; for L = 0 it has offset 0 and length 12 and
\* the final text is the suffix alone, without a leading separator.
C19_FooterOffset ==
    Normalized =>
        /\ FooterEntity.type = "mention"
        /\ FooterEntity.length = 12
        /\ UTF16Length(call.input) > 0 =>
              FooterEntity.offset = UTF16Length(call.input) + 1
        /\ UTF16Length(call.input) = 0 =>
              /\ FooterEntity.offset = 0
              /\ call.msg.text = footer_alone

\* A text of two characters and three UTF-16 units was normalized.
C19_Witness ==
    /\ Normalized
    /\ call.input = <<"U+1F600", "h">>
    /\ FooterEntity.offset = 4

\* C20: the mention entity normalize appends covers exactly the suffix in the
\* final text: its offset is the prior UTF-16 length plus the length of the
\* separator for a non-empty text and 0 for an empty one, and the UTF-16 units
\* [offset, offset + length) of the final text spell the suffix.
C20_FooterSpan ==
    Normalized =>
        /\ FooterEntity.offset =
              IF UTF16Length(call.input) > 0
              THEN UTF16Length(call.input) + (Len(footer_text) - Len(footer_alone))
              ELSE 0
        /\ SubSeq(encode_utf16_le(call.msg.text), FooterEntity.offset + 1,
                  FooterEntity.offset + FooterEntity.length) = footer_alone


\* ------------------------------------------------- the target id of a record
\* One update_target_message_id call, with its arguments and the table before
\* and after it noted in `call`.
update_target_message_id_call ==
    \E route \in StoreRoutes, message_id \in StoreMessageIds,
       target_message_id \in StoreTargetIds :
        LET after == update_target_message_id(table, route.name, route.source_id,
                                              message_id, target_message_id)
        IN  /\ table' = after
            /\ call' = [route_name |-> route.name,
                        source_chat_id |-> route.source_id,
                        source_message_id |-> message_id,
                        target_message_id |-> target_message_id,
                        before |-> table, after |-> after]
            /\ UNCHANGED <<tmp_files, downloads, platformVars, listenerVars,
                           queue, worker, logVars, boundVars, marked>>

NextTarget ==
    \/ StoreAdd
    \/ update_target_message_id_call

\* Marks, and updates of the target id whose effect on the table is noted.
SpecTarget == Init /\ [][NextTarget]_vars

TargetUpdated == "after" \in DOMAIN call

\* The rows of the table before the noted call that carry the call's key.
CalledRows ==
    SelectRows(call.before, call.route_name, call.source_chat_id,
               call.source_message_id)

\* C21: update_target_message_id on a key without a record leaves the table
\* as it was: no row is added and none is changed. On a key with a record it
\* adds and removes no row, sets the target_message_id of the rows with that
\* key and changes nothing else.
C21_SetTargetFrame ==
    TargetUpdated =>
        /\ CalledRows = {} => call.after = call.before
        /\ Len(call.after) = Len(call.before)
        /\ \A i \in DOMAIN call.before :
              IF RowKey(call.before[i])
                    = <<call.route_name, call.source_chat_id,
                        call.source_message_id>>
              THEN call.after[i] =
                      [call.before[i] EXCEPT
                         !.target_message_id = call.target_message_id]
              ELSE call.after[i] = call.before[i]

\* The call was made for a key without a record on a table that holds a record
\* of the same message id under another route.
C21_Witness ==
    /\ TargetUpdated
    /\ CalledRows = {}
    /\ \E i \in DOMAIN call.before :
          call.before[i].source_message_id = call.source_message_id
    /\ table = call.before


\* ------------------------------------------------------ the store's schema
\* The columns of processed_messages as ProcessedMessage declares them, and
\* as an older version of the program created them.
Columns ==
    {"id", "route_name", "source_chat_id", "source_message_id", "grouped_id",
     "target_message_id", "created_at"}

OlderColumns == Columns \ {"target_message_id"}

\* The names bound at module level in src/src/database.py: the module imports
\* no logger and defines none.
ModuleNames ==
    {"datetime", "Optional", "Column", "Integer", "String", "DateTime",
     "Index", "create_async_engine", "AsyncSession", "async_sessionmaker",
     "declarative_base", "select", "Config", "Base", "ProcessedMessage",
     "Database", "Deduper"}

\* A database file: whether processed_messages exists, its columns and its
\* rows (a row of the older schema has no target_message_id).
NoTable == [exists |-> FALSE, columns |-> {}, rows |-> <<>>]

\* Base.metadata.create_all: creates the tables that do not exist yet and
\* leaves an existing table as it is.
create_all(db) ==
    IF db.exists THEN db
    ELSE [exists |-> TRUE, columns |-> Columns, rows |-> <<>>]

\* ALTER TABLE processed_messages ADD COLUMN target_message_id INTEGER: the
\* rows keep their values and get NULL in the new column.
add_column(db) ==
    [db EXCEPT !.columns = @ \cup {"target_message_id"},
               !.rows = [i \in DOMAIN @ |->
                           [route_name |-> @[i].route_name,
                            source_chat_id |-> @[i].source_chat_id,
                            source_message_id |-> @[i].source_message_id,
                            grouped_id |-> @[i].grouped_id,
                            target_message_id |-> 0]]]

\* Database.init_db, inside the transaction of engine.begin(). When the
\* column is missing the migration branch first evaluates logger.info: a name
\* that is not bound raises NameError, the `except Exception` clause evaluates
\* logger.error, which raises NameError again, the error leaves init_db and
\* the transaction is rolled back.
init_db(db) ==
    LET created == create_all(db)
    IN  IF "target_message_id" \in created.columns
        THEN [raised |-> FALSE, db |-> created]
        ELSE IF "logger" \in ModuleNames
        THEN [raised |-> FALSE, db |-> add_column(created)]
        ELSE [raised |-> TRUE, db |-> db]

\* The rows an older version of the program has left: no target_message_id.
OlderRow(route, message_id, grouped_id) ==
    [route_name |-> route.name, source_chat_id |-> route.source_id,
     source_message_id |-> message_id, grouped_id |-> grouped_id]

OlderRows ==
    {OlderRow(route, message_id, grouped_id) :
        route \in RouteSet, message_id \in StoreMessageIds,
        grouped_id \in StoreGroupedIds}

RECURSIVE RowsOfLen(_, _)
RowsOfLen(rows, n) ==
    IF n = 0 THEN { <<>> }
    ELSE {Append(t, row) : t \in RowsOfLen(rows, n - 1), row \in rows}

\* The database files the program can be started on: none, one of the older
\* schema, one of the current schema.
DatabaseFiles ==
    {NoTable}
      \cup {[exists |-> TRUE, columns |-> OlderColumns, rows |-> rows] :
              rows \in UNION {RowsOfLen(OlderRows, n) : n \in 0..MaxSchemaRows}}
      \cup {[exists |-> TRUE, columns |-> Columns,
             rows |-> [i \in DOMAIN rows |->
                         ProcessedMessage(rows[i].route_name,
                                          rows[i].source_chat_id,
                                          rows[i].source_message_id,
                                          rows[i].grouped_id)]] :
              rows \in UNION {RowsOfLen(OlderRows, n) : n \in 0..MaxSchemaRows}}

\* main() calls db.init_db() on the database file it finds.
init_db_call ==
    \E db \in DatabaseFiles :
        LET res == init_db(db)
        IN  call' = [db |-> db, raised |-> res.raised, db_after |-> res.db]

NextSchema ==
    /\ init_db_call
    /\ UNCHANGED <<table, diskVars, platformVars, listenerVars, queue, worker,
                   logVars, boundVars, marked>>

\* Start-ups on database files of every schema.
SpecSchema == Init /\ [][NextSchema]_vars

SchemaChecked == "db_after" \in DOMAIN call

\* C22: on a database whose processed_messages table lacks the
\* target_message_id column, init_db returns without raising, the column
\* exists afterwards, and the table holds the same rows as before with their
\* values unchanged.
C22_OlderSchemaMigrated ==
    (SchemaChecked /\ call.db.exists /\ call.db.columns = OlderColumns) =>
        /\ ~call.raised
        /\ "target_message_id" \in call.db_after.columns
        /\ Len(call.db_after.rows) = Len(call.db.rows)
        /\ \A i \in DOMAIN call.db.rows :
              \A col \in DOMAIN call.db.rows[i] :
                  call.db_after.rows[i][col] = call.db.rows[i][col]


\* ------------------------------------------------------------ the normalizer
\* Normalizer.normalize, whole: the fields the relay pipeline reads together
\* with the text and the entities.
unified_message(message) ==
    LET uni == normalize(message)
        txt == normalize_text(message.message)
    IN  [source_chat_id |-> uni.source_chat_id,
         source_topic_id |-> uni.source_topic_id,
         source_message_id |-> uni.source_message_id,
         grouped_id |-> uni.grouped_id,
         reply_to_msg_id |-> uni.reply_to_msg_id,
         text |-> txt.text,
         entities |-> txt.entities,
         media_type |-> uni.media_type,
         media_path |-> uni.media_path]

NormalizeTexts == UNION {TextsOfLen(n) : n \in 0..MaxBodyLen}

\* One call of Normalizer.normalize on a message without entities.
normalize_message_call ==
    \E c \in Chats, rep \in FilterReplies, txt \in NormalizeTexts,
       med \in {NoMedia, Photo} :
        LET message == Message(1, c, 0, 5, rep, txt, med)
        IN  call' = [message |-> message, unified |-> unified_message(message)]

NextNormalize ==
    /\ normalize_message_call
    /\ UNCHANGED <<table, diskVars, platformVars, listenerVars, queue, worker,
                   logVars, boundVars, marked>>

\* Calls on the normalizer only.
SpecNormalize == Init /\ [][NextNormalize]_vars

NormalizeCalled == "unified" \in DOMAIN call

\* A message with body text, no media and no reply metadata.
PlainText ==
    /\ NormalizeCalled
    /\ call.message.media = NoMedia
    /\ ~call.message.reply_to.present

C24_TopicOfReplyHeader ==
    NormalizeCalled =>
        call.unified.source_topic_id =
            IF ~call.message.reply_to.present THEN 0
            ELSE IF call.message.reply_to.reply_to_top_id # 0
            THEN call.message.reply_to.reply_to_top_id
            ELSE IF call.message.reply_to.forum_topic
            THEN call.message.reply_to.reply_to_msg_id
            ELSE 0

\* A header flagged as a forum topic reply and naming no thread root gave the
\* replied-to id 55.
C24_Witness ==
    /\ NormalizeCalled
    /\ call.message.reply_to = ReplyHeader(0, TRUE, 55)
    /\ call.unified.source_topic_id = 55


\* ------------------------------------------------------ media classification
\* The MIME types of a message's document: none, the three sticker
\* containers, and two others.
MimeTypes ==
    {"", "image/webp", "application/x-tgsticker", "video/webm", "video/mp4",
     "application/pdf"}

\* Every combination of the attributes determine_media_type inspects.
MediaAttributes ==
    [sticker : BOOLEAN, document : BOOLEAN, mime_type : MimeTypes,
     photo : BOOLEAN, video : BOOLEAN, animated : BOOLEAN, voice : BOOLEAN,
     audio : BOOLEAN]

\* One call of Normalizer.determine_media_type.
determine_media_type_call ==
    \E media \in MediaAttributes :
        call' = [media |-> media, media_type |-> determine_media_type(media)]

NextMedia ==
    /\ determine_media_type_call
    /\ UNCHANGED <<table, diskVars, platformVars, listenerVars, queue, worker,
                   logVars, boundVars, marked>>

\* Calls on the media classification only.
SpecMedia == Init /\ [][NextMedia]_vars

MediaClassified == "media_type" \in DOMAIN call

\* The kinds in the order of precedence, and for each whether the media has
\* what the kind asks for.
MediaKinds ==
    <<"sticker", "sticker", "photo", "animation", "video", "voice", "audio",
      "document">>

Matches(media) ==
    <<media.sticker,
      media.document /\ media.mime_type \in
         {"image/webp", "application/x-tgsticker", "video/webm"},
      media.photo,
      media.video /\ media.animated,
      media.video,
      media.voice,
      media.audio,
      media.document>>

\* C25: determine_media_type returns the kind of the first match in the order
\* sticker, document of a sticker-container MIME type (as sticker), photo,
\* animated video, video, voice, audio, document, and none when nothing
\* matches, whatever later kinds match as well.
C25_FirstMatchWins ==
    MediaClassified =>
        LET hits == {k \in DOMAIN MediaKinds : Matches(call.media)[k]}
        IN  IF hits = {} THEN call.media_type = ""
            ELSE \E k \in hits :
                    /\ \A j \in hits : k <= j
                    /\ call.media_type = MediaKinds[k]

\* A .webp document that is also a photo and a video was classified as a
\* sticker.
C25_Witness ==
    /\ MediaClassified
    /\ ~call.media.sticker
    /\ call.media.document
    /\ call.media.mime_type = "image/webp"
    /\ call.media.photo
    /\ call.media.video
    /\ call.media_type = "sticker"


\* --------------------------------------------------------- processing units
\* The processor tasks created so far for each chat, noted in `call`
\* (asyncio.create_task(self._chat_processor(chat_id)) calls since the process
\* started).
Units ==
    IF "units" \in DOMAIN call THEN call.units ELSE [c \in Chats |-> 0]

\* Text messages in the routed chat and in a chat without a route: the
\* NewMessage handler is registered for every chat of the user account.
PostUnits ==
    /\ Len(history) < MaxUnitMsgs
    /\ \E c \in Chats, a \in PostAges, txt \in PostTexts :
          /\ history' = Append(history,
                           Message(Len(history) + 1, c, 0, a, NoReply, txt,
                                   NoMedia))
          /\ events' = events \cup {Len(history) + 1}
    /\ UNCHANGED <<diskVars, target_chats, listenerVars, queue, worker,
                   logVars, boundVars, storeApiVars>>

\* Listener._handle_new_message with the task creation noted: the test
\* `chat_id not in self.chat_queues`, the two assignments and the put run
\* without a suspension in between.
handle_new_message_unit(id) ==
    /\ id \in events
    /\ LET message == history[id]
           chat_id == message.chat_id
       IN  /\ events' = events \ {id}
           /\ last_seen' = update_last_seen(last_seen, chat_id, id)
           /\ chat_tasks' = chat_tasks \cup {chat_id}
           /\ call' = [units |-> ensure_chat_queue(Units, chat_tasks, chat_id)]
           /\ chat_queues' =
                [chat_queues EXCEPT ![chat_id] =
                    Append(@, [message |-> message, allow_old |-> FALSE])]
    /\ UNCHANGED <<diskVars, history, target_chats, proc, poll, queue, worker,
                   logVars, boundVars, marked>>

\* poll_deliver with the task creation of _ensure_chat_queue noted: the
\* coroutine holds no await, so awaiting it does not suspend _poll_sources.
poll_deliver_unit ==
    /\ poll.pc = "fetch"
    /\ LET source_id == SourceList[poll.src]
       IN  /\ last_seen' =
                 IF poll.found = <<>> THEN last_seen
                 ELSE update_last_seen(last_seen, source_id, MaxIdOf(poll.found))
           /\ chat_tasks' =
                 IF poll.found = <<>> THEN chat_tasks
                 ELSE chat_tasks \cup {source_id}
           /\ call' =
                 [units |-> IF poll.found = <<>> THEN Units
                            ELSE ensure_chat_queue(Units, chat_tasks, source_id)]
           /\ chat_queues' =
                 [chat_queues EXCEPT ![source_id] =
                     @ \o [i \in DOMAIN poll.found |->
                             [message |-> poll.found[i], allow_old |-> TRUE]]]
    /\ poll' = [poll EXCEPT !.pc = "loop", !.src = NextSource(poll.src),
                            !.min_id = 0, !.found = <<>>]
    /\ UNCHANGED <<diskVars, platformVars, proc, queue, worker, logVars,
                   boundVars, marked>>

NextUnits ==
    \/ PostUnits
    \/ \E id \in DOMAIN history : handle_new_message_unit(id)
    \/ init_last_seen_request
    \/ init_last_seen_reply
    \/ poll_request
    \/ poll_deliver_unit
    \/ \E c \in Chats : ProcGet(c)
    \/ \E c \in Chats : ProcSkip(c)
    \/ \E c \in Chats : ProcSingle(c)
    \/ \E c \in Chats : ProcMark(c)

\* The listener alone, with live events and polling, every call succeeding.
SpecUnits == Init /\ [][NextUnits]_vars

\* The messages of chat c that are between the get from the chat's queue and
\* the end of their iteration, one per unit that is not waiting.
InSection(c) == IF proc[c].pc = "get" THEN 0 ELSE 1

\* C26: for every chat at most one processor task has been created, whatever
\* the order of the live events and the poll replays that arrive first for
\* it, and a chat has a task exactly when it has a queue; so at most one
\* message of a chat is between the filter and the enqueue at any time.
C26_OneUnitPerChat ==
    \A c \in Chats :
        /\ Units[c] <= 1
        /\ Units[c] = 1 <=> c \in chat_tasks
        /\ InSection(c) <= Units[c]

\* Chat 100 got messages both from a live event and from a poll replay, the
\* chat without a route has its unit too, and chat 100's unit is at work.
C26_Witness ==
    /\ Units[100] = 1
    /\ Units[101] = 1
    /\ polls > 0
    /\ InSection(100) = 1
    /\ \E i \in DOMAIN admitted : TRUE


\* The album batches of the outbound queue's history.
Batches == {i \in DOMAIN outbox : outbox[i].is_list}

GroupsOf(payload) == {payload[j].grouped_id : j \in DOMAIN payload}

\* C27: when a part of album g2 is admitted while the chat's processor
\* collects another album g1, that step puts the whole g1 batch on the
\* outbound queue and leaves the processor collecting g2 with the new part
\* alone in its buffer; a batch never mixes two albums, and every part of an
\* earlier batch was admitted before every part of a later one.
C27_FlushBeforeNewAlbum ==
    /\ [](\A i \in Batches :
            /\ Cardinality(GroupsOf(outbox[i].payload)) = 1
            /\ \A j \in Batches :
                  i < j => \A a \in Admissions(outbox[i].payload),
                              b \in Admissions(outbox[j].payload) : a < b)
    /\ [][\A c \in Chats :
            ( /\ Admits(c)
              /\ proc[c].message.grouped_id # 0
              /\ proc[c].album_id # 0
              /\ proc[c].album_id # proc[c].message.grouped_id
              /\ admitted' # admitted )
            => /\ Len(outbox') = Len(outbox) + 1
               /\ LET batch == outbox'[Len(outbox) + 1]
                  IN  /\ batch.is_list
                      /\ batch.route = proc[c].album_route
                      /\ GroupsOf(batch.payload) = {proc[c].album_id}
                      /\ Admissions(batch.payload)
                            = Admissions(proc[c].album_messages)
                      /\ Len(batch.payload) = Len(proc[c].album_messages)
                      /\ queue' = queue \o <<batch>>
               /\ proc'[c].album_id = proc[c].message.grouped_id
               /\ proc'[c].album_route = CurrentRoute(c)
               /\ Len(proc'[c].album_messages) = 1
               /\ proc'[c].album_messages[1].id = proc[c].message.id
          ]_vars

\* A part of a second album flushed the first album, and the second album
\* was flushed after it.
C27_Witness ==
    \E i, j \in Batches :
        /\ i < j
        /\ outbox[i].why = "album"
        /\ GroupsOf(outbox[i].payload) # GroupsOf(outbox[j].payload)


\* ------------------------------------------------------ the inactivity window
\* timeout=2.0 of asyncio.wait_for in _chat_processor, in seconds.
AlbumTimeout == 2

\* Time, in whole seconds, noted in `call` by the clock: the current time,
\* when the processor of chat 100 last began to wait on its queue, how many
\* iterations it had finished by then, when it last buffered an album part and
\* how many admissions there were by then.
NoClock ==
    [now |-> 0, wait_since |-> 0, iterations |-> 0, last_part_at |-> 0,
     admissions |-> 0]

Clock == IF "now" \in DOMAIN call THEN call ELSE NoClock

\* The iterations of chat 100's processor that have ended: the entries taken
\* from its queue, less the one in hand.
Iterations ==
    (Len(history) - Cardinality(events)) - Len(chat_queues[100])
        - (IF proc[100].pc = "get" THEN 0 ELSE 1)

\* The processor's steps take no time: an iteration that ended, or a part
\* that was buffered, since the clock last moved did so at the current time.
WaitSince ==
    IF Iterations # Clock.iterations THEN Clock.now ELSE Clock.wait_since

LastPartAt ==
    IF Len(admitted) # Clock.admissions THEN Clock.now ELSE Clock.last_part_at

\* The processor waits in wait_for with an album pending.
Waiting ==
    /\ 100 \in chat_tasks
    /\ proc[100].pc = "get"
    /\ proc[100].album_id # 0
    /\ chat_queues[100] = <<>>

\* wait_for has waited for its timeout.
TimeoutDue == Waiting /\ Clock.now - WaitSince >= AlbumTimeout

\* A second passes: the processor has nothing to do, and a wait_for whose
\* timeout is due has raised TimeoutError.
Tick ==
    /\ Clock.now < MaxSeconds
    /\ proc[100].pc = "get"
    /\ chat_queues[100] = <<>>
    /\ ~TimeoutDue
    /\ call' = [now |-> Clock.now + 1, wait_since |-> WaitSince,
                iterations |-> Iterations, last_part_at |-> LastPartAt,
                admissions |-> Len(admitted)]
    /\ UNCHANGED <<table, diskVars, platformVars, listenerVars, queue, worker,
                   logVars, boundVars, marked>>

\* The timeout flush, when its time has come.
ProcTimeoutDue(c) ==
    /\ TimeoutDue
    /\ ProcTimeout(c)

\* Photos of album 7, and text messages that hold a blacklisted word.
PostWindow ==
    /\ Len(history) < MaxWindowMsgs
    /\ \E c \in PostChats, g \in PostGroups, a \in PostAges :
          /\ history' = Append(history,
                           Message(Len(history) + 1, c, g, a, NoReply,
                                   IF g = 0 THEN <<"A", "d">> ELSE <<"h", "i">>,
                                   IF g = 0 THEN NoMedia ELSE Photo))
          /\ events' = events \cup {Len(history) + 1}
    /\ UNCHANGED <<diskVars, target_chats, listenerVars, queue, worker,
                   logVars, boundVars, storeApiVars>>

NextWindow ==
    \/ PostWindow
    \/ Tick
    \/ \E id \in DOMAIN history : handle_new_message(id)
    \/ \E c \in Chats : ProcGet(c)
    \/ \E c \in Chats : ProcTimeoutDue(c)
    \/ \E c \in Chats : ProcSkip(c)
    \/ \E c \in Chats : ProcAlbumPart(c)
    \/ \E c \in Chats : ProcMark(c)

\* The listener with a clock: album parts and rejected messages arrive at any
\* time, the processor handles what it has before time moves on.
SpecWindow == Init /\ [][NextWindow]_vars

\* C28: an album is pending for no longer than the inactivity window of 2 s
\* after its last part was received, whatever rejected messages arrive on the
\* chat in between.
C28_FlushedAfterWindow ==
    proc[100].album_id # 0 => Clock.now - LastPartAt <= AlbumTimeout


\* The items the sender worker has taken and not finished.
InFlight ==
    {outbox[received[k]] : k \in DOMAIN received} \ Finished

\* C29: the sender worker takes an item from the outbound queue only when it
\* is done with the one before (send with every rate-limit sleep and retry,
\* recording of the target ids, cleanup), always the oldest one; so the items
\* are taken in the order they were enqueued, at most one is in the worker's
\* hands, and only that one is being sent.
C29_OneItemAtATime ==
    /\ [](/\ \A k \in DOMAIN received : received[k] = k
          /\ Cardinality(InFlight) <= 1
          /\ worker.pc = "get" => InFlight = {})
    /\ [][Len(queue') < Len(queue) =>
            /\ worker.pc = "get"
            /\ queue' = Tail(queue)
            /\ worker'.item = Head(queue)]_vars
    /\ [][\A t \in DOMAIN target_chats :
            target_chats'[t] # target_chats[t] =>
               /\ worker.pc = "send"
               /\ worker.item.route.target_id = t
               /\ \A j \in (Len(target_chats[t]) + 1)..Len(target_chats'[t]) :
                     target_chats'[t][j].seq = worker.item.seq]_vars

\* The worker sleeps on the second rate-limit signal for the first item while
\* the second item waits on the queue.
C29_Witness ==
    /\ worker.pc = "send"
    /\ worker.floods = 2
    /\ received = <<1>>
    /\ Len(queue) = 1
    /\ queue[1].seq = 2


\* ------------------------------------------- the content filter as shipped
\* The attributes the class Config defines. BLACKLIST_WORDS, which
\* _should_process reads, is not among them.
ConfigAttributes ==
    {"API_ID", "API_HASH", "BOT_TOKEN", "DB_NAME", "SESSION_NAME",
     "ROUTES_FILE", "ROUTES"}

\* Listener._should_process with the class Config of src/src/config.py: the
\* value it returns, or the AttributeError the read of Config.BLACKLIST_WORDS
\* raises once a message with text has passed the time and topic filters.
should_process_outcome(message, route, allow_old) ==
    IF ~allow_old /\ message.age > 300 THEN "False"
    ELSE IF /\ route.source_topic_id # 0
            /\ extract_topic_id(message) # route.source_topic_id
    THEN "False"
    ELSE IF message.message = <<>> THEN "True"
    ELSE IF "BLACKLIST_WORDS" \notin ConfigAttributes THEN "AttributeError"
    ELSE IF \E word \in BLACKLIST_WORDS :
                Contains(LowerText(message.message), word)
    THEN "False"
    ELSE "True"

\* One call _should_process(message, route, allow_old) from
\* _process_message; _chat_processor catches what it raises and goes on to
\* the next message, so only the outcome "True" lets the message be enqueued
\* and marked.
content_filter_call ==
    \E a \in FilterAges, rep \in FilterReplies, txt \in FilterTexts,
       route \in RouteSet, allow_old \in BOOLEAN :
        LET message == Message(1, route.source_id, 0, a, rep, txt, NoMedia)
        IN  call' = [message |-> message, route |-> route,
                     allow_old |-> allow_old,
                     outcome |->
                         should_process_outcome(message, route, allow_old)]

NextContent ==
    /\ content_filter_call
    /\ UNCHANGED <<table, diskVars, platformVars, listenerVars, queue, worker,
                   logVars, boundVars, marked>>

\* Calls on the filter with the configuration the repository ships.
SpecContent == Init /\ [][NextContent]_vars

ContentChecked == "outcome" \in DOMAIN call

\* C30: a message whose lower-cased text contains a blacklisted term is
\* rejected by the filter on every route, so it is neither enqueued nor
\* marked; a message whose text is empty or holds no blacklisted term passes
\* the content filter: the filter accepts it whenever the time and topic
\* filters do.
C30_ContentFilter ==
    ContentChecked =>
        /\ (/\ call.message.message # <<>>
            /\ ~ContentPasses(call.message)) => call.outcome = "False"
        /\ (/\ \/ call.message.message = <<>>
               \/ ContentPasses(call.message)
            /\ AgePasses(call.message, call.allow_old)
            /\ TopicPasses(call.message, call.route)) => call.outcome = "True"


\* ------------------------------------------------------- rejected messages
\* Texts that pass and texts that hold the blacklisted word, standalone or as
\* photos of album 7, in the routed chat and in the chat without a route. No
\* message is in a topic, so route r2 rejects every one of them.
DropTexts == { <<"h", "i">>, <<"A", "d">> }

PostDrop ==
    /\ Len(history) < MaxDropMsgs
    /\ \E c \in Chats, g \in PostGroups, a \in PostAges, txt \in DropTexts :
          /\ history' = Append(history,
                           Message(Len(history) + 1, c, g, a, NoReply, txt,
                                   IF g = 0 THEN NoMedia ELSE Photo))
          /\ events' = events \cup {Len(history) + 1}
    /\ UNCHANGED <<diskVars, target_chats, listenerVars, queue, worker,
                   logVars, boundVars, storeApiVars>>

NextDrop ==
    \/ PostDrop
    \/ \E id \in DOMAIN history : handle_new_message(id)
    \/ init_last_seen_request
    \/ init_last_seen_reply
    \/ poll_request
    \/ poll_deliver
    \/ \E c \in Chats : ProcGet(c)
    \/ \E c \in Chats : ProcTimeout(c)
    \/ \E c \in Chats : ProcSkip(c)
    \/ \E c \in Chats : ProcAlbumPart(c)
    \/ \E c \in Chats : ProcSingle(c)
    \/ \E c \in Chats : ProcMark(c)

\* The listener alone, with live events and polling, every call succeeding.
SpecDrop == Init /\ [][NextDrop]_vars

\* Route r's filters accept message m on some path it can have arrived by.
PassesFilters(m, r) ==
    /\ m.chat_id = r.source_id
    /\ TopicPasses(m, r)
    /\ ContentPasses(m)
    /\ m.age <= 300 \/ polls > 0

\* Message id was admitted for the route named r.
AdmittedFor(r, id) ==
    \E x \in DOMAIN admitted : admitted[x].route = r /\ admitted[x].id = id

\* The processor of chat c holds a message its route in turn rejects, or a
\* message of a chat without routes is next on c's queue.
Rejecting(c) ==
    \/ /\ proc[c].pc = "routes"
       /\ LET r == CurrentRoute(c)
              m == proc[c].message
          IN  \/ ~PassesFilters(m, r)
              \/ \E i \in DOMAIN table :
                    /\ table[i].route_name = r.name
                    /\ table[i].source_chat_id = r.source_id
                    /\ table[i].source_message_id = m.id
    \/ /\ proc[c].pc = "get"
       /\ chat_queues[c] # <<>>
       /\ \A r \in RouteSet : r.source_id # c

\* C31: the step that handles a message of a chat without a route, or a
\* message for a route that rejects it by filter or by the dedup check, changes
\* neither the table nor the outbound queue; every row of the table is the row
\* of a (route, message) pair that passed the route's filters and was admitted,
\* and every message in an enqueued item was admitted for some route, so a
\* message no route admitted has no row and is in no item.
C31_RejectedChangesNothing ==
    /\ [](/\ \A i \in DOMAIN table :
                /\ AdmittedFor(table[i].route_name, table[i].source_message_id)
                /\ \E r \in RouteSet :
                      /\ r.name = table[i].route_name
                      /\ table[i].source_chat_id = r.source_id
                      /\ PassesFilters(history[table[i].source_message_id], r)
          /\ \A x \in DOMAIN outbox :
                \A k \in DOMAIN outbox[x].payload :
                   \E r \in RouteSet :
                      AdmittedFor(r.name,
                                  outbox[x].payload[k].source_message_id))
    /\ [][\A c \in Chats :
             (Rejecting(c) /\ <<proc[c], chat_queues[c]>>' #
                                 <<proc[c], chat_queues[c]>>)
                => UNCHANGED <<table, queue, outbox>>]_vars

\* A message of the chat without a route and a blacklisted message of the
\* routed chat were taken and dropped, and the poll replay of a message already
\* recorded for r1 is at the dedup check: the table holds that one row and the
\* outbound queue that one item.
C31_Witness ==
    /\ \E i \in DOMAIN history :
          /\ history[i].chat_id = 101
          /\ i \notin events
          /\ chat_queues[101] = <<>>
    /\ \E i \in DOMAIN history :
          /\ history[i].chat_id = 100
          /\ ~ContentPasses(history[i])
          /\ i \notin events
          /\ \A e \in DOMAIN chat_queues[100] :
                chat_queues[100][e].message.id # i
          /\ proc[100].message.id # i
    /\ proc[100].pc = "routes"
    /\ proc[100].allow_old
    /\ is_processed(table, CurrentRoute(100), proc[100].message.id)
    /\ Len(table) = 1
    /\ Len(outbox) = 1


\* ------------------------------------------------- the parts of one batch
\* C32: every album batch put on the outbound queue under route r holds only
\* parts that r admitted (they passed r's filters and r's dedup check), all
\* of one grouped_id, and no source message id twice, also when several
\* routes read the same source chat.
C32_BatchOfItsRoute ==
    \A i \in DOMAIN outbox :
        outbox[i].is_list =>
            LET batch == outbox[i].payload
            IN  /\ \A j \in DOMAIN batch :
                      admitted[batch[j].adm].route = outbox[i].route.name
                /\ \A j, k \in DOMAIN batch :
                      batch[j].grouped_id = batch[k].grouped_id
                /\ \A j, k \in DOMAIN batch :
                      j # k => batch[j].source_message_id
                                  # batch[k].source_message_id


\* ------------------------------------------------- the attempts of one send
NextRetry ==
    \/ PostFlood
    \/ \E id \in DOMAIN history : handle_new_message(id)
    \/ \E c \in Chats : ProcGet(c)
    \/ \E c \in Chats : ProcTimeout(c)
    \/ \E c \in Chats : ProcSkip(c)
    \/ \E c \in Chats : ProcAlbumPart(c)
    \/ \E c \in Chats : ProcSingle(c)
    \/ \E c \in Chats : ProcMark(c)
    \/ WorkerGet
    \/ WorkerSend
    \/ WorkerSendFlood
    \/ WorkerSendOverflow
    \/ WorkerSendFails
    \/ WorkerRecord

\* The pipeline with a target platform that answers a send with rate-limit
\* signals, with another error, or with the messages it created.
SpecRetry == Init /\ [][NextRetry]_vars

\* The target messages position pos of item seq was turned into.
SentFor(seq, pos) ==
    {<<t, k>> \in TargetIds \X (1..(2 * MaxFloodMsgs)) :
        /\ k \in DOMAIN target_chats[t]
        /\ target_chats[t][k].seq = seq
        /\ target_chats[t][k].pos = pos}

\* C33: an item the sender worker took is sent successfully at most once,
\* rate-limit retries included: no position of an item has two target
\* messages; the worker makes a further attempt for its item only after an
\* attempt that raised the rate limit, which created nothing; an attempt that
\* created the target messages, or that raised another error, ends the send,
\* and nothing is sent for the item afterwards.
C33_AtMostOneSend ==
    /\ [](\A seq \in DOMAIN outbox, pos \in 1..MaxFloodMsgs :
             Cardinality(SentFor(seq, pos)) <= 1)
    /\ [][(worker.pc = "send" /\ worker'.pc = "send" /\ worker' # worker)
             => /\ worker'.item = worker.item
                /\ worker'.floods = worker.floods + 1
                /\ target_chats' = target_chats
                /\ faults' = faults]_vars
    /\ [][(worker.pc = "send"
              /\ (target_chats' # target_chats \/ faults' # faults))
             => /\ worker'.pc = "record"
                /\ worker'.item = worker.item
                /\ worker'.sent <=> target_chats' # target_chats]_vars
    /\ [][worker.pc = "record"
             => /\ target_chats' = target_chats
                /\ worker' = worker \/ worker' = InitWorker]_vars

\* The worker holds the target id of a send that succeeded at its third
\* attempt, after two rate-limit signals, and has earlier dropped an item
\* whose send raised another error.
C33_Witness ==
    /\ worker.pc = "record"
    /\ worker.sent
    /\ worker.floods = 2
    /\ Dropped # {}
    /\ Cardinality(SentFor(worker.item.seq, 1)) = 1

====
